---- MODULE Spec2Model ----
(***************************************************************************)
(* Model of the VIGA analysis-by-synthesis loop of colossus-blender:       *)
(*   - VIGAMemory / IterationContext      (docs/archive/memory.py)         *)
(*   - VIGAAgent.run_loop and its agents  (colossus_blender/viga/agent.py) *)
(*   - Qwen3VL.generate_text              (viga/modern_models.py)          *)
(*                                                                         *)
(* Python strings are modelled as sequences of symbols (words, blanks,     *)
(* quotes, brackets, a fence), so that `in`, find, slicing and strip are    *)
(* computed on positions as Python computes them.                          *)
(***************************************************************************)
EXTENDS Integers, Sequences, FiniteSets, TLC

VARIABLES
    \* ---- VIGAMemory (shared by the loop and the memory specification)
    history,          \* VIGAMemory.history: list of IterationContext
    window_size,      \* VIGAMemory.window_size
    \* ---- results of the memory's operations (memory specification)
    lastOp,           \* the last VIGAMemory method called
    ret,              \* the value that call returned
    added,            \* the records passed to add_iteration, in call order
    \* ---- VIGAAgent.run_loop
    pc,               \* position of the run_loop coroutine
    t,                \* loop variable of `for t in range(max_iterations)`
    max_iterations,   \* argument of run_loop
    plan,             \* local `plan` of generate_step
    ctx,              \* the IterationContext of the iteration in progress
    img_data,         \* local `img_data` of verify_step
    log,              \* every external call run_loop made, in order
    appendedAt,       \* Len(log) at the last memory.add_iteration
    \* ---- Qwen3VL.generate_text
    gpc,              \* position inside generate_text
    images,           \* argument `images`
    requests,         \* the requests posted so far by this call
    responses,        \* the responses received so far by this call
    outcome,          \* how the call ended: returned text or raised error
    model_text,       \* the model text handed to a Response Parser function
    extracted,        \* what the parser function returned or raised
    ppc,              \* position of the parser call
    state,            \* the WorkflowState threaded through the D5 stages
    iteration,        \* loop variable of ColossusD5Orchestrator.run
    dpc,              \* position in ColossusD5Orchestrator.run
    calls,            \* ghost: the stage calls made so far, in order
    eval_data,        \* ghost: what the last analyze_scene call did
    scene,            \* the host's scene: its objects and its active camera
    scene_before,     \* ghost: the scene when initialize_viewpoint was called
    vp_result,        \* status of the execute_code call of initialize_viewpoint
    vpc,              \* position of the initialize_viewpoint call
    name,             \* the `name` argument of get_model, as characters
    environ,          \* os.environ, as far as the model constructors read it
    selected,         \* the FoundationModel that get_model returned
    fpc,              \* position of the get_model call
    config,           \* BlenderMCPClient.config.connection_mode and mcp_tool_caller
    connected,        \* BlenderMCPClient._connected
    socket,           \* BlenderMCPClient.socket: none, or the state of the socket
    inbox,            \* response lines that arrived on the socket and are unread
    pending,          \* requests the host received and has not answered
    call_id,          \* ghost: number of the execute_code call, from 1
    tried,            \* ghost: this call went through _connect_socket
    mpc,              \* position of the execute_code call
    results           \* ghost: what each execute_code call returned

memVars  == <<history, window_size>>
opVars   == <<lastOp, ret, added>>
loopVars == <<pc, t, max_iterations, plan, ctx, img_data, log, appendedAt>>
gwVars   == <<gpc, images, requests, responses, outcome>>
parseVars == <<model_text, extracted, ppc>>
d5Vars    == <<state, iteration, dpc, calls, eval_data>>
viewVars  == <<scene, scene_before, vp_result, vpc>>
factoryVars == <<name, environ, selected, fpc>>
clientVars == <<config, connected, socket, inbox, pending, call_id, tried, mpc, results>>
otherVars == <<parseVars, d5Vars, viewVars, factoryVars, clientVars>>
vars     == <<memVars, opVars, loopVars, gwVars, otherVars>>

(***************************************************************************)
(* Bounds of the model.                                                    *)
(***************************************************************************)
MaxLen    == 3    \* records appended in the memory specification
MaxWindow == 2    \* largest window_size tried in the memory specification
MaxIter   == 3    \* largest max_iterations passed to run_loop
MaxImages == 2    \* longest `images` list passed to generate_text
MaxSegs   == 6    \* pieces a response given to extract_code_from_response is made of
MaxJsonSegs == 5  \* pieces a text given to extract_json_from_content is made of
D5MaxIter == 2    \* largest max_iterations a caller puts in the WorkflowState
MaxObjects == 2   \* most objects in the host's scene
MaxCoord  == 1    \* largest coordinate of a bounding box corner

(***************************************************************************)
(* Python string helpers (0-based positions, as in Python).                *)
(***************************************************************************)
Min(a, b) == IF a < b THEN a ELSE b
Max(a, b) == IF a > b THEN a ELSE b

\* s[a:b] for 0 <= a, b <= len(s)
Slice(s, a, b) == IF b > a THEN SubSeq(s, a + 1, b) ELSE <<>>

\* s.startswith(sub, i)
MatchAt(sub, s, i) ==
    /\ i >= 0
    /\ i + Len(sub) <= Len(s)
    /\ SubSeq(s, i + 1, i + Len(sub)) = sub

\* s.find(sub, start): lowest position >= start where sub occurs, else -1
Find(sub, s, start) ==
    LET hits == {i \in start..(Len(s) - Len(sub)) : MatchAt(sub, s, i)}
    IN  IF hits = {} THEN -1 ELSE CHOOSE i \in hits : \A j \in hits : i <= j

\* `sub in s`
Contains(sub, s) == Find(sub, s, 0) # -1

Blank == {" ", "\n"}

RECURSIVE LStrip(_)
LStrip(s) == IF s # <<>> /\ Head(s) \in Blank THEN LStrip(Tail(s)) ELSE s

RECURSIVE RStrip(_)
RStrip(s) ==
    IF s # <<>> /\ s[Len(s)] \in Blank THEN RStrip(SubSeq(s, 1, Len(s) - 1)) ELSE s

\* s.strip()
Strip(s) == RStrip(LStrip(s))

(***************************************************************************)
(* Optional[str]: Python's None is a marker that is no text of the model.  *)
(***************************************************************************)
None == <<"<None>">>

\* truth value of an Optional[str]: None and "" are false
Truthy(x) == x # None /\ x # <<>>

\* str(x) of an Optional[str]
Str(x) == IF x = None THEN <<"None">> ELSE x

\* a variant that drops the plan
IterationContext_noPlan(id, p, c) ==
    [iteration_id     |-> id,
     plan             |-> None,
     code             |-> c,
     execution_result |-> None,
     visual_feedback  |-> None]

\* a variant that numbers the iterations from 1
IterationContext_fromOne(id, p, c) ==
    [iteration_id     |-> id + 1,
     plan             |-> p,
     code             |-> c,
     execution_result |-> None,
     visual_feedback  |-> None]

(***************************************************************************)
(* IterationContext (code_diff and rendered_image_path are never assigned  *)
(* by any method and stay None; they are left out).                        *)
(***************************************************************************)
IterationContext(id, p, c) ==
    [iteration_id     |-> id,
     plan             |-> p,
     code             |-> c,
     execution_result |-> None,
     visual_feedback  |-> None]

(***************************************************************************)
(* Python slicing s[start:] for any integer start.                         *)
(***************************************************************************)
SliceFrom(s, start) ==
    LET from == IF start < 0 THEN Max(Len(s) + start, 0) ELSE Min(start, Len(s))
    IN  SubSeq(s, from + 1, Len(s))

(***************************************************************************)
(* VIGAMemory                                                              *)
(***************************************************************************)
\* a variant that loses the record
add_iteration_lost(h, context) == h

\* add_iteration(context): self.history.append(context), no validation
add_iteration(h, context) == Append(h, context)

\* a variant that slices from the front, self.history[:self.window_size]
get_context_window_head(h, k) == SubSeq(h, 1, Min(k, Len(h)))

\* get_context_window(): self.history[-self.window_size:]
get_context_window(h, k) == SliceFrom(h, 0 - k)

\* a variant that looks at the newest record only
get_latest_code_newest(h) ==
    IF h # <<>> /\ Truthy(h[Len(h)].code) THEN h[Len(h)].code ELSE <<>>

\* get_latest_code(): first truthy code scanning reversed(history), else ""
RECURSIVE get_latest_code(_)
get_latest_code(h) ==
    IF h = <<>> THEN <<>>
    ELSE IF Truthy(h[Len(h)].code) THEN h[Len(h)].code
    ELSE get_latest_code(SubSeq(h, 1, Len(h) - 1))

(***************************************************************************)
(* Memory specification: a VIGAMemory driven by an arbitrary caller.       *)
(***************************************************************************)
\* values of IterationContext.code a caller can pass
Codes == {None, <<>>, <<"a">>, <<"b">>}

\* iteration_id values a caller can pass when the memory holds n records:
\* the next sequence number, a repeated one, and one that leaves a gap
IdChoices(n) == {n, 0, n + 1}

LoopIdle ==
    /\ pc = "idle" /\ t = 0 /\ max_iterations = 0
    /\ plan = None /\ ctx = IterationContext(0, None, None)
    /\ img_data = <<>> /\ log = <<>> /\ appendedAt = 0

GwIdle ==
    /\ gpc = "idle" /\ images = <<>> /\ requests = <<>>
    /\ responses = <<>>
    /\ outcome = [kind |-> "none", status |-> 0, text |-> <<>>]

NotExtracted == [kind |-> "none", value |-> <<>>]

ParseIdle ==
    /\ model_text = <<>> /\ extracted = NotExtracted /\ ppc = "idle"

\* WorkflowState(user_intent, max_iterations, satisfaction_threshold); scores
\* are kept in hundredths (0.75 is 75)
NoCode == [by |-> "none", it |-> 0]
NoFeedback == [error |-> "none", issues |-> <<>>, suggestions |-> <<>>]
WorkflowState(max, threshold) ==
    [current_iteration      |-> 0,
     max_iterations         |-> max,
     satisfaction_threshold |-> threshold,
     subtasks               |-> 0,
     blender_code           |-> NoCode,
     execution_result       |-> "none",
     screenshot_base64      |-> None,
     quality_score          |-> 0,
     visual_feedback        |-> NoFeedback,
     is_satisfied           |-> FALSE,
     refinement_suggestions |-> <<>>,
     iteration_history      |-> <<>>]

NoEval == [kind |-> "none"]

D5Idle ==
    /\ state = WorkflowState(0, 0) /\ iteration = 0 /\ dpc = "idle"
    /\ calls = <<>> /\ eval_data = NoEval

NoCamera == [kind |-> "none", a |-> 0, b |-> 0]
EmptyScene == [objects |-> {}, camera |-> NoCamera]

ViewIdle ==
    /\ scene = EmptyScene /\ scene_before = EmptyScene
    /\ vp_result = "none" /\ vpc = "idle"

\* the settings the constructors of the models read from the environment:
\* QWEN3_VL_SIZE, whether the numeric QWEN3_VL_* and GEMINI_* settings parse
\* as numbers, whether an API key for Gemini is set
DefaultEnviron ==
    [size |-> "unset", qwen_numeric |-> TRUE, gemini_numeric |-> TRUE, api_key |-> FALSE]
NoModel == [class |-> "none", model_name |-> "", api_key |-> FALSE]

FactoryIdle ==
    /\ name = <<>> /\ environ = DefaultEnviron /\ selected = NoModel /\ fpc = "idle"

\* BlenderMCPClient.__init__ with the default BlenderConfig
DefaultConfig == [connection_mode |-> "socket", mcp_tool_caller |-> FALSE]

ClientIdle ==
    /\ config = DefaultConfig /\ connected = FALSE /\ socket = "none"
    /\ inbox = <<>> /\ pending = <<>> /\ call_id = 0 /\ tried = FALSE
    /\ mpc = "idle" /\ results = <<>>

\* the subsystems outside memory, loop and gateway are not running
OthersIdle == ParseIdle /\ D5Idle /\ ViewIdle /\ FactoryIdle /\ ClientIdle

MemInit ==
    /\ history = <<>>                      \* VIGAMemory.__init__
    /\ window_size \in 0..MaxWindow
    /\ lastOp = "__init__" /\ ret = <<>> /\ added = <<>>
    /\ LoopIdle /\ GwIdle /\ OthersIdle

AddIteration ==
    /\ Len(history) < MaxLen
    /\ \E id \in IdChoices(Len(history)), c \in Codes :
          LET context == IterationContext(id, None, c) IN
          /\ history' = add_iteration(history, context)
          /\ added' = Append(added, context)
    /\ lastOp' = "add_iteration"
    /\ ret' = <<>>
    /\ UNCHANGED <<otherVars, window_size, loopVars, gwVars>>

GetContextWindow ==
    /\ lastOp' = "get_context_window"
    /\ ret' = get_context_window(history, window_size)
    /\ UNCHANGED <<otherVars, memVars, added, loopVars, gwVars>>

GetLatestCode ==
    /\ lastOp' = "get_latest_code"
    /\ ret' = get_latest_code(history)
    /\ UNCHANGED <<otherVars, memVars, added, loopVars, gwVars>>

MemNext == AddIteration \/ GetContextWindow \/ GetLatestCode

SpecMemory == MemInit /\ [][MemNext]_vars

(***************************************************************************)
(* extract_code_from_response (vision_utils.py)                            *)
(***************************************************************************)
\* the three-backquote fence is one symbol, the language tag the next one
Fence       == <<"fence">>
FencePython == Fence \o <<"python">>

extract_code_from_response(response) ==
    IF Contains(FencePython, response)
    THEN LET start == Find(FencePython, response, 0) + Len(FencePython)
             end   == Find(Fence, response, start)
         IN  IF end > start THEN Strip(Slice(response, start, end))
                            ELSE Strip(response)
    ELSE IF Contains(Fence, response)
    THEN LET start == Find(Fence, response, 0) + Len(Fence)
             end   == Find(Fence, response, start)
         IN  IF end > start THEN Strip(Slice(response, start, end))
                            ELSE Strip(response)
    ELSE Strip(response)

(***************************************************************************)
(* The collaborators of run_loop.                                          *)
(***************************************************************************)
\* FoundationModel.generate_text: returns a text or raises
GatewayOutcomes(texts) ==
    {[kind |-> "ok", text |-> x] : x \in texts} \cup {[kind |-> "raise", text |-> <<>>]}

\* the convergence sentinel tested at the end of an iteration
Sentinel == <<"OBJECTIVE", " ", "COMPLETE">>

\* texts the model returns as a plan, as a synthesis response, as feedback
PlanTexts == {<<"add", " ", "cube">>}
CodeResponses ==
    {FencePython \o <<"\n", "import", " ", "bpy", "\n">> \o Fence, <<>>}
FeedbackTexts == {<<"move", " ", "cube">>, <<"done.", " ">> \o Sentinel}

\* dictionaries returned by BlenderMCPClient.execute_code; hasStatus and
\* hasErrors tell whether the key is present
HostResults ==
    {[hasStatus |-> TRUE, status |-> "success", hasErrors |-> TRUE, errors |-> <<>>],
     [hasStatus |-> TRUE, status |-> "error", hasErrors |-> TRUE,
      errors |-> << <<"boom">> >>],
     [hasStatus |-> TRUE, status |-> "error", hasErrors |-> TRUE,
      errors |-> << Sentinel >>],
     [hasStatus |-> TRUE, status |-> "error", hasErrors |-> FALSE, errors |-> <<>>],
     [hasStatus |-> FALSE, status |-> "", hasErrors |-> TRUE, errors |-> <<>>]}

\* values of image_data in the screenshot result ("" when the key is absent)
ImageData == {<<>>, <<"img">>}

\* str(list_of_str): brackets around the quoted items, joined by comma-blank
RECURSIVE ReprItems(_)
ReprItems(l) ==
    IF l = <<>> THEN <<>>
    ELSE <<"'">> \o Head(l) \o <<"'">>
         \o (IF Len(l) > 1 THEN <<",", " ">> ELSE <<>>) \o ReprItems(Tail(l))

\* f"{exec_result.get('errors')}"
StrErrors(r) ==
    IF r.hasErrors THEN <<"[">> \o ReprItems(r.errors) \o <<"]">> ELSE <<"None">>

\* str(exec_result), over the keys status and errors
StrResult(r) ==
    LET st == IF r.hasStatus
              THEN <<"'", "status", "'", ":", " ", "'", r.status, "'">> ELSE <<>>
        er == IF r.hasErrors
              THEN <<"'", "errors", "'", ":", " ">> \o StrErrors(r) ELSE <<>>
        sep == IF r.hasStatus /\ r.hasErrors THEN <<",", " ">> ELSE <<>>
    IN  <<"{">> \o st \o sep \o er \o <<"}">>

\* exec_result.get("status") == "error"
IsError(r) == r.hasStatus /\ r.status = "error"

\* a variant whose test always matches
Converged_always(c) == TRUE

\* a variant whose test never matches
Converged_never(c) == FALSE

\* "OBJECTIVE COMPLETE" in str(ctx.visual_feedback)
Converged(c) == Contains(Sentinel, Str(c.visual_feedback))

(***************************************************************************)
(* VIGAAgent.run_loop, one action per awaited step.                        *)
(***************************************************************************)
Call(op, res, who) == [op |-> op, result |-> res, by |-> who, t |-> t]

\* `async with aiohttp.ClientSession(timeout=timeout) as session` inside
\* generate_text: every gateway call opens a session of its own and closes
\* it when it returns or raises
SessionsOpened(entries) ==
    Cardinality({i \in 1..Len(entries) : entries[i].op = "model"})

\* a gateway call of generate_step, with what generate_step had read from the
\* memory when it made the call: the window behind get_full_prompt() and,
\* for the synthesis call, get_latest_code()
GeneratorCall(res, stage) ==
    [op |-> "model", result |-> res, by |-> "generator", t |-> t,
     stage  |-> stage,
     window |-> get_context_window(history, window_size),
     latest |-> IF stage = "synthesize" THEN get_latest_code(history) ELSE None,
     plan   |-> IF stage = "synthesize" THEN plan ELSE None,
     records |-> Len(history)]

\* a variant that passes no image
VerifierImages_none(d) == <<>>

\* images=[img_data]
VerifierImages(d) == <<d>>

\* a call of verify_step: to the host (viewpoint, scene_info, screenshot) or
\* to the gateway (model), with the image captured so far, the images the
\* gateway call carries, and the record and memory size at the call
VerifierCall(op, res, img) ==
    [op |-> op, result |-> res, by |-> "verifier", t |-> t,
     image   |-> img,
     images  |-> IF op = "model" THEN VerifierImages(img) ELSE <<>>,
     record  |-> ctx,
     records |-> Len(history)]

Init ==
    /\ history = <<>>                      \* VIGAAgent.__init__
    /\ window_size = 3
    /\ lastOp = "__init__" /\ ret = <<>> /\ added = <<>>
    /\ LoopIdle /\ GwIdle /\ OthersIdle

\* run_loop(task_instruction, max_iterations) is called
RunLoop ==
    /\ pc = "idle"
    /\ \E n \in 0..MaxIter : max_iterations' = n
    /\ t' = 0
    /\ pc' = "for"
    /\ UNCHANGED <<otherVars, memVars, opVars, plan, ctx, img_data, log, appendedAt, gwVars>>

\* for t in range(max_iterations)
ForNext ==
    /\ pc = "for"
    /\ pc' = IF t < max_iterations THEN "make_plan" ELSE "done"
    /\ UNCHANGED <<otherVars, memVars, opVars, t, max_iterations, plan, ctx, img_data, log,
                   appendedAt, gwVars>>

\* generate_step, first half: get_full_prompt and skills.make_plan
MakePlan ==
    /\ pc = "make_plan"
    /\ \E o \in GatewayOutcomes(PlanTexts) :
          /\ plan' = IF o.kind = "ok" THEN o.text ELSE plan
          /\ pc' = IF o.kind = "ok" THEN "synthesize" ELSE "raised"
          /\ log' = Append(log, GeneratorCall(o.kind, "plan"))
    /\ UNCHANGED <<otherVars, memVars, opVars, t, max_iterations, ctx, img_data, appendedAt,
                   gwVars>>

\* generate_step, second half: get_latest_code, generate_text, extraction
Synthesize ==
    /\ pc = "synthesize"
    /\ \E o \in GatewayOutcomes(CodeResponses) :
          /\ ctx' = IF o.kind = "ok"
                    THEN IterationContext(t, plan, extract_code_from_response(o.text))
                    ELSE ctx
          /\ pc' = IF o.kind = "ok" THEN "execute" ELSE "raised"
          /\ log' = Append(log, GeneratorCall(o.kind, "synthesize"))
    /\ UNCHANGED <<otherVars, memVars, opVars, t, max_iterations, plan, img_data, appendedAt,
                   gwVars>>

\* skills.execute_code(ctx.code) and the branch on its status
ExecuteCode ==
    /\ pc = "execute"
    /\ \E r \in HostResults :
          /\ ctx' = IF IsError(r)
                    THEN [ctx EXCEPT
                            !.execution_result = StrResult(r),
                            !.visual_feedback =
                                <<"Execution", " ", "Error:", " ">> \o StrErrors(r)]
                    ELSE [ctx EXCEPT !.execution_result = StrResult(r)]
          /\ pc' = IF IsError(r) THEN "add_iteration" ELSE "initialize_viewpoint"
          /\ log' = Append(log, Call("execute_code",
                                     IF IsError(r) THEN "error" ELSE "ok", "loop"))
    /\ UNCHANGED <<otherVars, memVars, opVars, t, max_iterations, plan, img_data, appendedAt,
                   gwVars>>

\* verify_step: skills.initialize_viewpoint()
InitializeViewpoint ==
    /\ pc = "initialize_viewpoint"
    /\ pc' = "scene_info"
    /\ log' = Append(log, VerifierCall("viewpoint", "ok", <<>>))
    /\ UNCHANGED <<otherVars, memVars, opVars, t, max_iterations, plan, ctx, img_data,
                   appendedAt, gwVars>>

\* verify_step: skills.get_scene_info_text()
SceneInfo ==
    /\ pc = "scene_info"
    /\ pc' = "screenshot"
    /\ log' = Append(log, VerifierCall("scene_info", "ok", <<>>))
    /\ UNCHANGED <<otherVars, memVars, opVars, t, max_iterations, plan, ctx, img_data,
                   appendedAt, gwVars>>

\* verify_step: mcp.get_viewport_screenshot() and .get("image_data", "")
Screenshot ==
    /\ pc = "screenshot"
    /\ \E d \in ImageData :
          /\ img_data' = d
          /\ log' = Append(log, VerifierCall("screenshot", "ok", d))
    /\ pc' = "verify"
    /\ UNCHANGED <<otherVars, memVars, opVars, t, max_iterations, plan, ctx, appendedAt,
                   gwVars>>

\* verify_step: generate_text(..., images=[img_data]); ctx.visual_feedback
Verify ==
    /\ pc = "verify"
    /\ \E o \in GatewayOutcomes(FeedbackTexts) :
          /\ ctx' = IF o.kind = "ok" THEN [ctx EXCEPT !.visual_feedback = o.text]
                                     ELSE ctx
          /\ pc' = IF o.kind = "ok" THEN "add_iteration" ELSE "raised"
          /\ log' = Append(log, VerifierCall("model", o.kind, img_data))
    /\ UNCHANGED <<otherVars, memVars, opVars, t, max_iterations, plan, img_data, appendedAt,
                   gwVars>>

\* self.memory.add_iteration(ctx)
UpdateMemory ==
    /\ pc = "add_iteration"
    /\ history' = add_iteration(history, ctx)
    /\ appendedAt' = Len(log)
    /\ pc' = "check"
    /\ UNCHANGED <<otherVars, window_size, opVars, t, max_iterations, plan, ctx, img_data, log,
                   gwVars>>

\* the convergence test: break, or the next value of t
CheckConvergence ==
    /\ pc = "check"
    /\ IF Converged(ctx)
       THEN pc' = "done" /\ t' = t
       ELSE pc' = "for" /\ t' = t + 1
    /\ UNCHANGED <<otherVars, memVars, opVars, max_iterations, plan, ctx, img_data, log,
                   appendedAt, gwVars>>

Next ==
    \/ RunLoop
    \/ ForNext
    \/ MakePlan
    \/ Synthesize
    \/ ExecuteCode
    \/ InitializeViewpoint
    \/ SceneInfo
    \/ Screenshot
    \/ Verify
    \/ UpdateMemory
    \/ CheckConvergence

Spec == Init /\ [][Next]_vars

\* every awaited call of the collaborators returns or raises: run_loop is a
\* single coroutine that is resumed after each await
FairSpec == Spec /\ WF_vars(Next)

(***************************************************************************)
(* Several run_loop calls on one VIGAAgent: the agent is built once, and   *)
(* each call runs the loop on the agent's memory.                          *)
(***************************************************************************)
MaxRuns    == 2   \* run_loop calls made on the agent
MaxRunIter == 1   \* largest max_iterations passed to one of these calls

RunsStarted == Cardinality({i \in 1..Len(log) : log[i].op = "run_loop"})

\* run_loop(task_instruction, max_iterations) is called on the agent, for
\* the first time or after an earlier call returned or raised; self.memory
\* is the VIGAMemory made in __init__
RunLoopOnAgent ==
    /\ pc \in {"idle", "done", "raised"}
    /\ RunsStarted < MaxRuns
    /\ \E n \in 0..MaxRunIter : max_iterations' = n
    /\ t' = 0
    /\ pc' = "for"
    /\ log' = Append(log, [Call("run_loop", "ok", "caller") EXCEPT !.t = 0])
    /\ UNCHANGED <<otherVars, memVars, opVars, plan, ctx, img_data, appendedAt, gwVars>>

RunsNext ==
    \/ RunLoopOnAgent
    \/ ForNext
    \/ MakePlan
    \/ Synthesize
    \/ ExecuteCode
    \/ InitializeViewpoint
    \/ SceneInfo
    \/ Screenshot
    \/ Verify
    \/ UpdateMemory
    \/ CheckConvergence

SpecRuns == Init /\ [][RunsNext]_vars

(***************************************************************************)
(* BlenderMCPClient.execute_code (mcp_client.py), with the host answering  *)
(* on the socket at its own pace.                                          *)
(***************************************************************************)
MaxCalls == 3   \* execute_code calls made on one client

Configs == [connection_mode : {"socket", "mcp_tools"}, mcp_tool_caller : BOOLEAN]

\* the dictionary built in an except branch, or for a missing tool caller:
\* status "error" and errors = [str(e)]
ErrorResult(cause, established) ==
    [call |-> call_id, kind |-> "error", status |-> "error", errors |-> 1,
     to |-> 0, cause |-> cause, established |-> established, tried |-> tried]

\* json.loads(response_data), or the result of call_tool, returned as it is;
\* `to` is the request the host answered with it
HostResult(request) ==
    [call |-> call_id, kind |-> "response", status |-> "host", errors |-> 0,
     to |-> request, cause |-> "none", established |-> TRUE, tried |-> tried]

\* an exception that leaves execute_code
Raised(cause) ==
    [call |-> call_id, kind |-> "raised", status |-> "none", errors |-> 0,
     to |-> 0, cause |-> cause, established |-> FALSE, tried |-> tried]

\* a variant whose failure leaves _connect_socket as an exception
connect_socket_raises(ok) ==
    [socket |-> IF ok THEN "open" ELSE "unconnected", connected |-> ok, raised |-> ~ok]

\* _connect_socket: a new socket; _connected is True after connect() and
\* False in the except branch, which returns False
connect_socket(ok) ==
    [socket |-> IF ok THEN "open" ELSE "unconnected", connected |-> ok, raised |-> FALSE]

ClientInit ==
    /\ history = <<>> /\ window_size = 3
    /\ lastOp = "__init__" /\ ret = <<>> /\ added = <<>>
    /\ LoopIdle /\ GwIdle /\ FactoryIdle /\ ParseIdle /\ D5Idle /\ ViewIdle
    /\ config \in Configs
    /\ connected = FALSE /\ socket = "none"
    /\ inbox = <<>> /\ pending = <<>> /\ call_id = 0 /\ tried = FALSE
    /\ mpc = "idle" /\ results = <<>>

\* execute_code(code) is called: the dispatch on connection_mode and
\* `if not self._connected`
ExecuteCodeCalled ==
    /\ mpc = "idle"
    /\ call_id < MaxCalls
    /\ call_id' = call_id + 1
    /\ tried' = FALSE
    /\ mpc' = IF config.connection_mode = "mcp_tools" THEN "tool"
              ELSE IF connected THEN "send" ELSE "connect"
    /\ UNCHANGED <<memVars, opVars, loopVars, gwVars, parseVars, d5Vars, viewVars,
                   factoryVars, config, connected, socket, inbox, pending, results>>

\* await self.connect(), outside the try block of _execute_code_socket; the
\* new socket has nothing of the old connection
ConnectSocket ==
    /\ mpc = "connect"
    /\ \E ok \in BOOLEAN :
          LET r == connect_socket(ok) IN
          /\ socket' = r.socket
          /\ connected' = r.connected
          /\ IF r.raised
             THEN /\ results' = Append(results, [Raised("connect") EXCEPT !.tried = TRUE])
                  /\ mpc' = "idle"
             ELSE /\ mpc' = "send"
                  /\ UNCHANGED results
    /\ tried' = TRUE
    /\ inbox' = <<>> /\ pending' = <<>>
    /\ UNCHANGED <<memVars, opVars, loopVars, gwVars, parseVars, d5Vars, viewVars,
                   factoryVars, config, call_id>>

\* self.socket.sendall(message): the host receives the request, or sendall
\* raises (always so on a socket that is not connected) and the except
\* branch returns
Send ==
    /\ mpc = "send"
    /\ \/ /\ socket = "open"
          /\ pending' = Append(pending, call_id)
          /\ mpc' = "recv"
          /\ UNCHANGED <<socket, results>>
       \/ /\ socket' = IF socket = "open" THEN "failed" ELSE socket
          /\ results' = Append(results, ErrorResult("send", socket = "open"))
          /\ mpc' = "idle"
          /\ UNCHANGED pending
    /\ UNCHANGED <<memVars, opVars, loopVars, gwVars, parseVars, d5Vars, viewVars,
                   factoryVars, config, connected, inbox, call_id, tried>>

\* the host answers its oldest request with a line that is JSON or is not
HostResponds ==
    /\ pending # <<>>
    /\ socket = "open"
    /\ \E body \in {"json", "junk"} :
          inbox' = Append(inbox, [to |-> Head(pending), body |-> body])
    /\ pending' = Tail(pending)
    /\ UNCHANGED <<memVars, opVars, loopVars, gwVars, parseVars, d5Vars, viewVars,
                   factoryVars, config, connected, socket, call_id, tried, mpc, results>>

\* _recv_until_newline and json.loads: recv returns unread lines, one or
\* more of them, and a single JSON line is the result; or nothing arrives
\* before the timeout; or the peer closed and recv returns nothing
Recv ==
    /\ mpc = "recv"
    /\ \/ /\ inbox # <<>>
          /\ \E k \in 1..Len(inbox) :
                /\ inbox' = SubSeq(inbox, k + 1, Len(inbox))
                /\ results' = Append(results,
                       IF k = 1 /\ inbox[1].body = "json"
                       THEN HostResult(inbox[1].to)
                       ELSE ErrorResult("decode", TRUE))
          /\ UNCHANGED socket
       \/ /\ inbox = <<>>
          /\ results' = Append(results, ErrorResult("timeout", TRUE))
          /\ UNCHANGED <<socket, inbox>>
       \/ /\ inbox = <<>>
          /\ results' = Append(results, ErrorResult("closed", TRUE))
          /\ socket' = "failed"
          /\ UNCHANGED inbox
    /\ mpc' = "idle"
    /\ UNCHANGED <<memVars, opVars, loopVars, gwVars, parseVars, d5Vars, viewVars,
                   factoryVars, config, connected, pending, call_id, tried>>

\* _execute_code_mcp_tools: no tool caller, or call_tool returns or raises
CallTool ==
    /\ mpc = "tool"
    /\ IF ~config.mcp_tool_caller
       THEN results' = Append(results, ErrorResult("no_caller", FALSE))
       ELSE \E raises \in BOOLEAN :
               results' = Append(results,
                   IF raises THEN ErrorResult("tool", FALSE) ELSE HostResult(call_id))
    /\ mpc' = "idle"
    /\ UNCHANGED <<memVars, opVars, loopVars, gwVars, parseVars, d5Vars, viewVars,
                   factoryVars, config, connected, socket, inbox, pending, call_id, tried>>

ClientNext ==
    \/ ExecuteCodeCalled \/ ConnectSocket \/ Send \/ HostResponds \/ Recv \/ CallTool

SpecClient == ClientInit /\ [][ClientNext]_vars

(***************************************************************************)
(* Qwen3VL.generate_text, one action per request and per inspection of a   *)
(* response.                                                               *)
(***************************************************************************)
\* the `images` arguments tried: lists of base64 payloads, "" included
ImageLists ==
    UNION {[1..n -> ImageData] : n \in 0..MaxImages}

\* what the server can answer: a status and a raw body
Statuses  == {200, 400, 500}
RawBodies == {<<"json", "hello">>, <<"junk">>}
Responses == {[status |-> s, raw |-> r] : s \in Statuses, r \in RawBodies}

\* resp.json() and data["choices"][0]["message"]["content"]
Parses(raw)  == raw # <<>> /\ Head(raw) = "json"
Content(raw) == Tail(raw)

\* the user message built from `images`: a parts list with one image part
\* per non-empty payload when `images` is non-empty, a plain text otherwise
UserMessage(imgs) ==
    [parts  |-> imgs # <<>>,
     images |-> SelectSeq(imgs, LAMBDA d : d # <<>>)]

\* a variant of the retry that sends the first message again
RetryMessage_same(imgs) == UserMessage(imgs)

\* the message of the retry: system and user prompt as plain text
RetryMessage(imgs) == [parts |-> FALSE, images |-> <<>>]

\* a variant that retries every 400
ShouldRetry_any400(status, imgs) == status = 400

\* resp.status == 400 and images
ShouldRetry(status, imgs) == status = 400 /\ imgs # <<>>

Returns(text) == [kind |-> "return", status |-> 200, text |-> text]
\* RuntimeError(f"Qwen3-VL request failed ({status}): {text}")
RuntimeError(status, text) == [kind |-> "RuntimeError", status |-> status, text |-> text]
\* any other exception: a timeout or transport error, an undecodable body
OtherError == [kind |-> "OtherError", status |-> 0, text |-> <<>>]

GwInit ==
    /\ history = <<>>
    /\ window_size = 3
    /\ lastOp = "__init__" /\ ret = <<>> /\ added = <<>>
    /\ LoopIdle /\ GwIdle /\ OthersIdle

\* generate_text(system_prompt, user_prompt, images) is called
GenerateText ==
    /\ gpc = "idle"
    /\ \E imgs \in ImageLists : images' = imgs
    /\ gpc' = "post"
    /\ UNCHANGED <<otherVars, memVars, opVars, loopVars, requests, responses, outcome>>

\* session.post(url, json=payload): the first request
Post ==
    /\ gpc = "post"
    /\ requests' = Append(requests, UserMessage(images))
    /\ \/ \E r \in Responses :
             /\ responses' = Append(responses, r)
             /\ gpc' = "inspect"
             /\ UNCHANGED outcome
       \/ /\ outcome' = OtherError
          /\ gpc' = "done"
          /\ UNCHANGED responses
    /\ UNCHANGED <<otherVars, memVars, opVars, loopVars, images>>

\* the tests on resp.status after the first request
Inspect ==
    /\ gpc = "inspect"
    /\ LET resp == responses[1] IN
       IF ShouldRetry(resp.status, images)
       THEN gpc' = "retry" /\ UNCHANGED outcome
       ELSE /\ gpc' = "done"
            /\ outcome' = IF resp.status # 200 THEN RuntimeError(resp.status, resp.raw)
                          ELSE IF Parses(resp.raw) THEN Returns(Content(resp.raw))
                          ELSE OtherError
    /\ UNCHANGED <<otherVars, memVars, opVars, loopVars, images, requests, responses>>

\* session.post(url, json=payload) with the text-only messages
Retry ==
    /\ gpc = "retry"
    /\ requests' = Append(requests, RetryMessage(images))
    /\ \/ \E r \in Responses :
             /\ responses' = Append(responses, r)
             /\ gpc' = "inspect_retry"
             /\ UNCHANGED outcome
       \/ /\ outcome' = OtherError
          /\ gpc' = "done"
          /\ UNCHANGED responses
    /\ UNCHANGED <<otherVars, memVars, opVars, loopVars, images>>

\* the test on resp2.status
InspectRetry ==
    /\ gpc = "inspect_retry"
    /\ LET resp2 == responses[2] IN
       outcome' = IF resp2.status # 200 THEN RuntimeError(resp2.status, resp2.raw)
                  ELSE IF Parses(resp2.raw) THEN Returns(Content(resp2.raw))
                  ELSE OtherError
    /\ gpc' = "done"
    /\ UNCHANGED <<otherVars, memVars, opVars, loopVars, images, requests, responses>>

GwNext == GenerateText \/ Post \/ Inspect \/ Retry \/ InspectRetry

SpecGateway == GwInit /\ [][GwNext]_vars

(***************************************************************************)
(* Response Parser: extract_code_from_response as a called function.       *)
(* A response is a concatenation of at most MaxSegs pieces: a bare fence,  *)
(* a fence with the python tag, two different words, a line break.         *)
(***************************************************************************)
RECURSIVE Flatten(_)
Flatten(segs) == IF segs = <<>> THEN <<>> ELSE Head(segs) \o Flatten(Tail(segs))

TextsOf(segments, n) ==
    {Flatten(q) : q \in UNION {[1..k -> segments] : k \in 0..n}}

CodeSegments == {Fence, FencePython, <<"x">>, <<"y">>, <<"\n">>}

\* nothing but the parser call is running
AgentIdle ==
    /\ history = <<>> /\ window_size = 3
    /\ lastOp = "__init__" /\ ret = <<>> /\ added = <<>>
    /\ LoopIdle /\ GwIdle /\ FactoryIdle /\ ClientIdle

CodeInit ==
    /\ AgentIdle /\ D5Idle /\ ViewIdle
    /\ model_text \in TextsOf(CodeSegments, MaxSegs)
    /\ extracted = NotExtracted
    /\ ppc = "call"

\* code = extract_code_from_response(response); the function has no raise
ExtractCode ==
    /\ ppc = "call"
    /\ extracted' = [kind |-> "ok", value |-> extract_code_from_response(model_text)]
    /\ ppc' = "returned"
    /\ UNCHANGED <<clientVars, factoryVars, viewVars, d5Vars, memVars, opVars, loopVars, gwVars, model_text>>

CodeNext == ExtractCode

SpecExtractCode == CodeInit /\ [][CodeNext]_vars

(***************************************************************************)
(* Response Parser: extract_json_from_content as a called function.        *)
(* A text is a concatenation of at most MaxJsonSegs pieces: a bare fence,  *)
(* a fence with the json tag, the two braces, a number, a blank.  The JSON *)
(* documents that can be written with them are the empty object and the    *)
(* number.                                                                 *)
(***************************************************************************)
FenceJson == Fence \o <<"json">>

JsonSegments == {Fence, FenceJson, <<"{">>, <<"}">>, <<"1">>, <<" ">>}

\* s.rfind(sub): highest position where sub occurs, else -1
RFind(sub, s) ==
    LET hits == {i \in 0..(Len(s) - Len(sub)) : MatchAt(sub, s, i)}
    IN  IF hits = {} THEN -1 ELSE CHOOSE i \in hits : \A j \in hits : i >= j

\* s.split(sub)[0]
SplitHead(sub, s) ==
    IF Contains(sub, s) THEN Slice(s, 0, Find(sub, s, 0)) ELSE s

\* s.split(sub)[1], for a text that contains sub
SplitSecond(sub, s) ==
    SplitHead(sub, Slice(s, Find(sub, s, 0) + Len(sub), Len(s)))

\* the text without the whitespace json.loads skips between tokens
RECURSIVE Tokens(_)
Tokens(s) ==
    IF s = <<>> THEN <<>>
    ELSE IF Head(s) \in Blank THEN Tokens(Tail(s))
    ELSE <<Head(s)>> \o Tokens(Tail(s))

ValidJson == {<<"{", "}">>, <<"1">>}

\* json.loads(s): the parsed document, or JSONDecodeError
json_loads(s) ==
    IF Tokens(s) \in ValidJson
    THEN [kind |-> "ok", value |-> Tokens(s)]
    ELSE [kind |-> "raise", value |-> <<"JSONDecodeError">>]

\* the candidate of each branch
FencedJson(content) == Strip(SplitHead(Fence, SplitSecond(FenceJson, content)))
BraceSpan(content)  ==
    Slice(content, Find(<<"{">>, content, 0), RFind(<<"}">>, content) + 1)

\* a variant that goes on to the next candidate when one does not parse
extract_json_fallthrough(content) ==
    LET cands == (IF Contains(FenceJson, content)
                  THEN <<FencedJson(content)>> ELSE <<>>)
                 \o (IF Contains(<<"{">>, content) /\ Contains(<<"}">>, content)
                     THEN <<BraceSpan(content)>> ELSE <<>>)
                 \o <<Strip(content)>>
        good  == {i \in DOMAIN cands : json_loads(cands[i]).kind = "ok"}
    IN  IF good = {} THEN json_loads(cands[1])
        ELSE json_loads(cands[CHOOSE i \in good : \A j \in good : i <= j])

extract_json_from_content(content) ==
    IF Contains(FenceJson, content)
    THEN json_loads(FencedJson(content))
    ELSE IF Contains(<<"{">>, content) /\ Contains(<<"}">>, content)
    THEN json_loads(BraceSpan(content))
    ELSE json_loads(Strip(content))

JsonInit ==
    /\ AgentIdle /\ D5Idle /\ ViewIdle
    /\ model_text \in TextsOf(JsonSegments, MaxJsonSegs)
    /\ extracted = NotExtracted
    /\ ppc = "call"

\* extract_json_from_content(content) returns the document or raises
ExtractJson ==
    /\ ppc = "call"
    /\ extracted' = extract_json_from_content(model_text)
    /\ ppc' = "returned"
    /\ UNCHANGED <<clientVars, factoryVars, viewVars, d5Vars, memVars, opVars, loopVars, gwVars, model_text>>

JsonNext == ExtractJson

SpecExtractJson == JsonInit /\ [][JsonNext]_vars

(***************************************************************************)
(* ColossusD5Orchestrator.run: Plan once, then Design, Execute, Evaluate,  *)
(* Refine per iteration, over one WorkflowState.                           *)
(***************************************************************************)
\* satisfaction_threshold values a caller sets (0.0, 0.5, the default 0.75)
Thresholds == {0, 50, 75}

\* what the planner's model call does: it raises, or its content is no JSON,
\* or JSON without "subtasks", or a plan with estimated_iterations (0: none)
PlanResponses ==
    {[kind |-> "raise", estimated |-> 0],
     [kind |-> "malformed", estimated |-> 0],
     [kind |-> "no_subtasks", estimated |-> 0],
     [kind |-> "ok", estimated |-> 0],
     [kind |-> "ok", estimated |-> 1],
     [kind |-> "ok", estimated |-> 3]}

\* what execute_code and get_viewport_screenshot do
ExecResponses ==
    {[status |-> "success", shot |-> "image"],
     [status |-> "success", shot |-> "no_image_data"],
     [status |-> "success", shot |-> "raise"],
     [status |-> "error",   shot |-> "none"],
     [status |-> "unknown", shot |-> "none"],
     [status |-> "raise",   shot |-> "none"]}

\* what analyze_scene does: it raises, or returns _create_fallback_response
\* after a parse failure, or returns the parsed analysis of the model
Analysis(scores, overallKind, overall, flag) ==
    [kind |-> "analysis", scores |-> scores, overallKind |-> overallKind,
     overall |-> overall, flag |-> flag, issues |-> <<>>]

FallbackResponse ==
    [kind |-> "fallback", scores |-> <<>>, overallKind |-> "number",
     overall |-> 50, flag |-> "false",
     issues |-> <<"Vision model response parsing failed">>]

VisionRaise ==
    [kind |-> "raise", scores |-> <<>>, overallKind |-> "missing",
     overall |-> 0, flag |-> "missing", issues |-> <<>>]

NotCalled ==
    [kind |-> "not_called", scores |-> <<>>, overallKind |-> "missing",
     overall |-> 0, flag |-> "missing", issues |-> <<>>]

EvalResponses ==
    {Analysis(<<8, 8, 9, 7, 8>>, "number", 80, "true"),
     Analysis(<<8, 8, 9, 7, 8>>, "number", 30, "false"),
     Analysis(<<>>, "missing", 0, "true"),
     Analysis(<<>>, "null", 0, "true"),
     FallbackResponse,
     VisionRaise}

\* a variant that wants both the score and the flag
Satisfied_and(score, threshold, flag) == score >= threshold /\ flag

\* state.quality_score >= state.satisfaction_threshold or
\* eval_data.get("is_satisfactory", False)
Satisfied(score, threshold, flag) == score >= threshold \/ flag

\* a variant whose except branch leaves no score and no issue
evaluate_silent(st, r) ==
    IF st.screenshot_base64 \in {None, <<>>}
    THEN [st EXCEPT !.quality_score = 0,
                    !.visual_feedback =
                        [error |-> "No screenshot available for evaluation",
                         issues |-> <<>>, suggestions |-> <<>>]]
    ELSE IF r.kind = "raise" \/ r.overallKind = "null"
    THEN [st EXCEPT !.quality_score = 0,
                    !.visual_feedback =
                        [error |-> "Vision model evaluation failed",
                         issues |-> <<>>, suggestions |-> <<>>]]
    ELSE LET score == IF r.overallKind = "missing" THEN 0 ELSE r.overall
         IN  [st EXCEPT !.quality_score = score,
                        !.visual_feedback =
                            [error |-> IF r.kind = "fallback" THEN "parse" ELSE "none",
                             issues |-> r.issues,
                             suggestions |-> <<>>],
                        !.is_satisfied =
                            score >= st.satisfaction_threshold \/ r.flag = "true"]

\* EvaluatorAgent.evaluate(state) with what analyze_scene did
evaluate(st, r) ==
    IF st.screenshot_base64 \in {None, <<>>}
    THEN [st EXCEPT !.quality_score = 0,
                    !.visual_feedback =
                        [error |-> "No screenshot available for evaluation",
                         issues |-> <<>>, suggestions |-> <<>>]]
    ELSE IF r.kind = "raise" \/ r.overallKind = "null"
    THEN [st EXCEPT !.quality_score = 50,
                    !.visual_feedback =
                        [error |-> "Vision model evaluation failed",
                         issues |-> <<"Could not evaluate screenshot">>,
                         suggestions |-> <<>>]]
    ELSE LET score == IF r.overallKind = "missing" THEN 0 ELSE r.overall
         IN  [st EXCEPT !.quality_score = score,
                        !.visual_feedback =
                            [error |-> IF r.kind = "fallback" THEN "parse" ELSE "none",
                             issues |-> r.issues,
                             suggestions |-> <<>>],
                        !.is_satisfied =
                            Satisfied(score, st.satisfaction_threshold, r.flag = "true")]

\* a variant that always asks the model
RefineSkips_never(st) == FALSE

\* RefinerAgent.refine: `if state.is_satisfied: ... return state`
RefineSkips(st) == st.is_satisfied

\* one stage call, for the ghost log
StageCall(stage, made, res, st, st2) ==
    [stage |-> stage, it |-> st.current_iteration, model |-> made,
     max_iterations |-> st.max_iterations,
     result |-> res, entered |-> st.is_satisfied, satisfied |-> st2.is_satisfied,
     before |-> st.blender_code, code |-> st2.blender_code,
     score |-> st2.quality_score]

D5Init ==
    /\ AgentIdle /\ ParseIdle /\ ViewIdle
    /\ \E max \in 1..D5MaxIter, threshold \in Thresholds :
          state = WorkflowState(max, threshold)
    /\ iteration = 0
    /\ dpc = "plan"
    /\ calls = <<>>
    /\ eval_data = NoEval

\* state = await self.planner.plan(state)
Plan ==
    /\ dpc = "plan"
    /\ \E r \in PlanResponses :
          LET st2 == IF r.kind = "ok"
                     THEN [state EXCEPT !.subtasks = 2,
                                        !.max_iterations =
                                            IF r.estimated # 0
                                            THEN Min(r.estimated, 5) ELSE @]
                     ELSE IF r.kind = "malformed"
                     THEN [state EXCEPT !.subtasks = 1]
                     ELSE state
          IN  /\ state' = st2
              /\ dpc' = IF r.kind \in {"raise", "no_subtasks"} THEN "raised" ELSE "for"
              /\ calls' = Append(calls,
                     StageCall("plan", TRUE,
                               IF r.kind = "raise" THEN "raise" ELSE "ok", state, st2))
    /\ UNCHANGED <<clientVars, factoryVars, viewVars, memVars, opVars, loopVars, gwVars, parseVars, iteration, eval_data>>

\* for iteration in range(state.max_iterations): state.current_iteration = iteration
D5For ==
    /\ dpc = "for"
    /\ IF iteration < state.max_iterations
       THEN /\ state' = [state EXCEPT !.current_iteration = iteration]
            /\ dpc' = "design"
       ELSE /\ dpc' = "done"
            /\ UNCHANGED state
    /\ UNCHANGED <<clientVars, factoryVars, viewVars, memVars, opVars, loopVars, gwVars, parseVars, iteration, calls, eval_data>>

\* state = await self.designer.design(state)
Design ==
    /\ dpc = "design"
    /\ \E res \in {"ok", "raise"} :
          LET st2 == IF res = "ok"
                     THEN [state EXCEPT !.blender_code =
                              [by |-> "design", it |-> state.current_iteration]]
                     ELSE state
          IN  /\ state' = st2
              /\ dpc' = IF res = "ok" THEN "execute" ELSE "raised"
              /\ calls' = Append(calls, StageCall("design", TRUE, res, state, st2))
    /\ UNCHANGED <<clientVars, factoryVars, viewVars, memVars, opVars, loopVars, gwVars, parseVars, iteration, eval_data>>

\* ExecutorAgent.execute(state)
execute(st, r) ==
    IF r.status = "raise" \/ (r.status = "success" /\ r.shot = "raise")
    THEN [st EXCEPT !.execution_result = "error"]
    ELSE IF r.status = "success"
    THEN [st EXCEPT !.execution_result = "success",
                    !.screenshot_base64 =
                        IF r.shot = "image" THEN <<"img">> ELSE None]
    ELSE [st EXCEPT !.execution_result = r.status]

\* a variant that takes only the status "error" for a failure
ExecutionFailed_onlyError(st) == st.execution_result = "error"

\* if state.execution_result.get("status") != "success"
ExecutionFailed(st) == st.execution_result # "success"

\* a variant that runs the same iteration again
NextIteration_same(i) == i

\* the next value of `for iteration in range(state.max_iterations)`
NextIteration(i) == i + 1

\* state = await self.executor.execute(state), and the status test after it
Execute ==
    /\ dpc = "execute"
    /\ \E r \in ExecResponses :
          LET st2 == execute(state, r)
          IN  /\ calls' = Append(calls,
                     StageCall("execute", FALSE, st2.execution_result, state, st2))
              /\ IF ExecutionFailed(st2)
                 THEN /\ state' = [st2 EXCEPT !.iteration_history =
                             Append(@, [iteration |-> iteration,
                                        execution_failed |-> TRUE,
                                        quality_score |-> 0,
                                        is_satisfied |-> FALSE])]
                      /\ iteration' = NextIteration(iteration)
                      /\ dpc' = "for"
                 ELSE /\ state' = st2
                      /\ dpc' = "evaluate"
                      /\ UNCHANGED iteration
    /\ UNCHANGED <<clientVars, factoryVars, viewVars, memVars, opVars, loopVars, gwVars, parseVars, eval_data>>

\* state = await self.evaluator.evaluate(state)
Evaluate ==
    /\ dpc = "evaluate"
    /\ \E r \in IF state.screenshot_base64 \in {None, <<>>}
                THEN {NotCalled} ELSE EvalResponses :
          LET st2 == evaluate(state, r)
          IN  /\ state' = st2
              /\ eval_data' = r
              /\ calls' = Append(calls,
                     StageCall("evaluate", r.kind # "not_called",
                               IF r.kind = "raise" THEN "raise" ELSE "ok", state, st2))
    /\ dpc' = "record"
    /\ UNCHANGED <<clientVars, factoryVars, viewVars, memVars, opVars, loopVars, gwVars, parseVars, iteration>>

\* state.iteration_history.append(...), `if state.is_satisfied: break`, and
\* `if iteration < state.max_iterations - 1` before Refine
Record ==
    /\ dpc = "record"
    /\ state' = [state EXCEPT !.iteration_history =
                    Append(@, [iteration |-> iteration,
                               execution_failed |-> FALSE,
                               quality_score |-> state.quality_score,
                               is_satisfied |-> state.is_satisfied])]
    /\ IF state.is_satisfied
       THEN dpc' = "done" /\ UNCHANGED iteration
       ELSE IF iteration < state.max_iterations - 1
       THEN dpc' = "refine" /\ UNCHANGED iteration
       ELSE dpc' = "for" /\ iteration' = NextIteration(iteration)
    /\ UNCHANGED <<clientVars, factoryVars, viewVars, memVars, opVars, loopVars, gwVars, parseVars, calls, eval_data>>

\* RefinerAgent.refine(state), ending at position `after` when it returns and
\* at `failed` when its model call raises
refine(after, failed) ==
    IF RefineSkips(state)
    THEN LET st2 == [state EXCEPT !.refinement_suggestions = <<>>]
         IN  /\ state' = st2
             /\ dpc' = after
             /\ calls' = Append(calls, StageCall("refine", FALSE, "ok", state, st2))
    ELSE \E res \in {"ok", "raise"} :
            LET st2 == IF res = "ok"
                       THEN [state EXCEPT
                                !.blender_code =
                                    [by |-> "refine", it |-> state.current_iteration],
                                !.refinement_suggestions =
                                    state.visual_feedback.suggestions]
                       ELSE state
            IN  /\ state' = st2
                /\ dpc' = IF res = "ok" THEN after ELSE failed
                /\ calls' = Append(calls, StageCall("refine", TRUE, res, state, st2))

\* state = await self.refiner.refine(state) inside the loop
Refine ==
    /\ dpc = "refine"
    /\ refine("for", "raised")
    /\ iteration' = NextIteration(iteration)
    /\ UNCHANGED <<clientVars, factoryVars, viewVars, memVars, opVars, loopVars, gwVars, parseVars, eval_data>>

\* a caller hands the WorkflowState that run returned to RefinerAgent.refine
RefineReturned ==
    /\ dpc = "done"
    /\ refine("refined", "refine_raised")
    /\ UNCHANGED <<clientVars, factoryVars, viewVars, memVars, opVars, loopVars, gwVars, parseVars, iteration, eval_data>>

D5Next ==
    \/ Plan \/ D5For \/ Design \/ Execute \/ Evaluate \/ Record \/ Refine
    \/ RefineReturned

SpecD5 == D5Init /\ [][D5Next]_vars

(***************************************************************************)
(* SkillLibrary.initialize_viewpoint: the framing script it sends to the   *)
(* host, run on a scene.  A scene has objects (a type and, on one axis,    *)
(* the two ends of the bounding box) and an active camera or none.         *)
(***************************************************************************)
Objects ==
    {[type |-> ty, lo |-> lo, hi |-> hi] :
        ty \in {"MESH", "LIGHT"}, lo \in 0..MaxCoord, hi \in 0..MaxCoord}

SceneObjects ==
    {o \in Objects : o.lo <= o.hi}

Cameras ==
    {NoCamera, [kind |-> "prior", a |-> 0, b |-> 0], [kind |-> "prior", a |-> 1, b |-> 1]}

Scenes ==
    {[objects |-> os, camera |-> cam] :
        os \in {x \in SUBSET SceneObjects : Cardinality(x) <= MaxObjects},
        cam \in Cameras}

\* dataset = [o for o in bpy.context.scene.objects if o.type == 'MESH']
Dataset(sc) == {o \in sc.objects : o.type = "MESH"}

\* the pose the script computes: twice the centre of the joint bounding box
\* and its largest dimension determine location and rotation
Framed(ds) ==
    LET lo == CHOOSE x \in {o.lo : o \in ds} : \A y \in {o.lo : o \in ds} : x <= y
        hi == CHOOSE x \in {o.hi : o \in ds} : \A y \in {o.hi : o \in ds} : x >= y
    IN  [kind |-> "framed", a |-> lo + hi, b |-> hi - lo]

\* a variant that positions the camera whatever the scene holds
framing_script_always(sc) ==
    [sc EXCEPT !.camera = [kind |-> "framed", a |-> 0, b |-> 0]]

\* the script: `if not dataset: print(...)`, else `cam = scene.camera` and
\* `if cam:` set cam.location and cam.rotation_euler
framing_script(sc) ==
    IF Dataset(sc) = {} THEN sc
    ELSE IF sc.camera = NoCamera THEN sc
    ELSE [sc EXCEPT !.camera = Framed(Dataset(sc))]

ViewInit ==
    /\ AgentIdle /\ ParseIdle /\ D5Idle
    /\ scene \in Scenes
    /\ scene_before = scene
    /\ vp_result = "none"
    /\ vpc = "call"

\* await self.mcp.execute_code(code): the host runs the script, or the call
\* fails and execute_code returns a result with status error
CallInitializeViewpoint ==
    /\ vpc = "call"
    /\ \E ran \in BOOLEAN :
          /\ scene' = IF ran THEN framing_script(scene) ELSE scene
          /\ vp_result' = IF ran THEN "success" ELSE "error"
    /\ vpc' = "returned"
    /\ UNCHANGED <<clientVars, factoryVars, memVars, opVars, loopVars, gwVars, parseVars, d5Vars, scene_before>>

ViewNext == CallInitializeViewpoint

SpecViewpoint == ViewInit /\ [][ViewNext]_vars

(***************************************************************************)
(* VIGAMemory.get_full_prompt and IterationContext.to_prompt_str, on       *)
(* memories whose records differ in which fields are set.                  *)
(***************************************************************************)
RECURSIVE JoinLines(_)
JoinLines(parts) ==
    IF parts = <<>> THEN <<>>
    ELSE IF Len(parts) = 1 THEN Head(parts)
    ELSE Head(parts) \o <<"\n">> \o JoinLines(Tail(parts))

IterationHeader(c) == <<"##", " ", "Iteration", " ", ToString(c.iteration_id)>>
PlanPart(c)     == <<"**Plan**:", " ">> \o Str(c.plan)
CodePart(c)     ==
    <<"**Code", " ", "Generated**:", " ", "\n">>
    \o FencePython \o <<"\n">> \o Str(c.code) \o <<"\n">> \o Fence
FeedbackPart(c) == <<"**Verifier", " ", "Feedback**:", " ">> \o Str(c.visual_feedback)

\* a variant that renders every section, set or not
to_prompt_str_placeholders(c) ==
    JoinLines(<<IterationHeader(c), PlanPart(c), CodePart(c), FeedbackPart(c)>>)

\* IterationContext.to_prompt_str
to_prompt_str(c) ==
    JoinLines(<<IterationHeader(c)>>
              \o (IF Truthy(c.plan) THEN <<PlanPart(c)>> ELSE <<>>)
              \o (IF Truthy(c.code) THEN <<CodePart(c)>> ELSE <<>>)
              \o (IF Truthy(c.visual_feedback) THEN <<FeedbackPart(c)>> ELSE <<>>))

RECURSIVE RenderWindow(_)
RenderWindow(window) ==
    IF window = <<>> THEN <<>>
    ELSE to_prompt_str(Head(window)) \o <<"\n", "\n">> \o RenderWindow(Tail(window))

\* VIGAMemory.get_full_prompt
get_full_prompt(h, k) ==
    <<"###", " ", "Interaction", " ", "History", " ", "(Recent)", "\n", "\n">>
    \o RenderWindow(get_context_window(h, k))

\* field values of the records: unset, empty, a text
Plans     == {None, <<"p">>}
Feedbacks == {None, <<>>, <<"f">>}
PromptCodes == {None, <<"a">>}

\* an iteration is recorded with some of its fields set
AddRecord ==
    /\ Len(history) < MaxLen
    /\ \E p \in Plans, c \in PromptCodes, f \in Feedbacks :
          LET context == [IterationContext(Len(history), p, c)
                             EXCEPT !.visual_feedback = f] IN
          /\ history' = add_iteration(history, context)
          /\ added' = Append(added, context)
    /\ lastOp' = "add_iteration"
    /\ ret' = <<>>
    /\ UNCHANGED <<otherVars, window_size, loopVars, gwVars>>

GetFullPrompt ==
    /\ lastOp' = "get_full_prompt"
    /\ ret' = get_full_prompt(history, window_size)
    /\ UNCHANGED <<otherVars, memVars, added, loopVars, gwVars>>

PromptNext == AddRecord \/ GetFullPrompt

SpecPrompt == MemInit /\ [][PromptNext]_vars

(***************************************************************************)
(* get_model and the constructors it calls (modern_models.py).             *)
(***************************************************************************)
MaxPieces == 3   \* pieces a name given to get_model is made of

Environments ==
    [size : {"unset", "8b", "30B"}, qwen_numeric : BOOLEAN,
     gemini_numeric : BOOLEAN, api_key : BOOLEAN]

\* float(os.getenv(...)) or int(os.getenv(...)) on a setting that is no number
ValueError == [class |-> "ValueError", model_name |-> "", api_key |-> FALSE]

\* str.upper() on the sizes, str.lower() on the characters of a name
Upper(size) == IF size = "8b" THEN "8B" ELSE size
Lower(c) ==
    CASE c = "Q" -> "q" [] c = "W" -> "w" [] c = "E" -> "e" [] c = "N" -> "n"
      [] c = "G" -> "g" [] c = "I" -> "i" [] OTHER -> c
lower(str) == [i \in 1..Len(str) |-> Lower(str[i])]

\* Qwen3VL.__init__(size)
Qwen3VL(size, e) ==
    IF e.qwen_numeric
    THEN [class |-> "Qwen3VL", model_name |-> Upper(size), api_key |-> FALSE]
    ELSE ValueError

\* Gemini3Pro.__init__()
Gemini3Pro(e) ==
    IF e.gemini_numeric
    THEN [class |-> "Gemini3Pro", model_name |-> "pro", api_key |-> e.api_key]
    ELSE ValueError

\* MockModel has no constructor of its own
MockModel == [class |-> "MockModel", model_name |-> "", api_key |-> FALSE]

\* a variant that compares the name as it was given
get_model_caseSensitive(n, e) ==
    IF Contains(<<"q", "w", "e", "n">>, n)
    THEN IF Contains(<<"3", "0">>, n) THEN Qwen3VL("30B", e)
         ELSE IF Contains(<<"8">>, n) THEN Qwen3VL("8B", e)
         ELSE Qwen3VL(IF e.size = "unset" THEN "30B" ELSE e.size, e)
    ELSE IF Contains(<<"g", "e", "m", "i", "n", "i">>, n) THEN Gemini3Pro(e)
    ELSE MockModel

\* get_model(name)
get_model(n, e) ==
    LET low == lower(n) IN
    IF Contains(<<"q", "w", "e", "n">>, low)
    THEN IF Contains(<<"3", "0">>, low) THEN Qwen3VL("30B", e)
         ELSE IF Contains(<<"8">>, low) THEN Qwen3VL("8B", e)
         ELSE Qwen3VL(IF e.size = "unset" THEN "30B" ELSE e.size, e)
    ELSE IF Contains(<<"g", "e", "m", "i", "n", "i">>, low) THEN Gemini3Pro(e)
    ELSE MockModel

\* the names tried: pieces of model names, in both cases, and other text
NamePieces ==
    {<<"q", "w", "e", "n">>, <<"Q", "W">>, <<"E", "N">>,
     <<"g", "e", "m", "i", "n", "i">>, <<"G", "e", "m", "I", "N", "i">>,
     <<"3", "0">>, <<"8">>, <<"-">>, <<"x">>}
Names == TextsOf(NamePieces, MaxPieces)

FactoryInit ==
    /\ history = <<>> /\ window_size = 3
    /\ lastOp = "__init__" /\ ret = <<>> /\ added = <<>>
    /\ LoopIdle /\ GwIdle /\ ParseIdle /\ D5Idle /\ ViewIdle /\ ClientIdle
    /\ name \in Names
    /\ environ \in Environments
    /\ selected = NoModel
    /\ fpc = "call"

\* model = get_model(name): returns a model, or a constructor raises
GetModel ==
    /\ fpc = "call"
    /\ selected' = get_model(name, environ)
    /\ fpc' = IF get_model(name, environ) = ValueError THEN "raised" ELSE "returned"
    /\ UNCHANGED <<clientVars, memVars, opVars, loopVars, gwVars, parseVars, d5Vars,
                   viewVars, name, environ>>

FactoryNext == GetModel

SpecFactory == FactoryInit /\ [][FactoryNext]_vars

(***************************************************************************)
(* Gemini3Pro.generate_text, one action per request and per inspection of  *)
(* a response.                                                             *)
(***************************************************************************)
\* bodies the Gemini server answers with: a candidate with a text part, no
\* candidates, no JSON
GeminiBodies == RawBodies \cup {<<"json">>}
GeminiResponses == {[status |-> s, raw |-> r] : s \in Statuses, r \in GeminiBodies}

\* data.get("candidates", []) and candidates[0]["content"]["parts"]
Candidates(raw) == Tail(raw) # <<>>

\* payload["contents"]: one inline_data part per non-empty payload of
\* `images`, then the text part
GeminiContents(imgs) ==
    [parts  |-> TRUE,
     images |-> SelectSeq(imgs, LAMBDA d : d # <<>>)]

\* a Gemini3Pro built from an environment whose GEMINI_* settings are numbers
GeminiInit ==
    /\ history = <<>> /\ window_size = 3
    /\ lastOp = "__init__" /\ ret = <<>> /\ added = <<>>
    /\ LoopIdle /\ GwIdle /\ ParseIdle /\ D5Idle /\ ViewIdle /\ ClientIdle
    /\ name = <<"g", "e", "m", "i", "n", "i">>
    /\ environ \in {e \in Environments : e.gemini_numeric}
    /\ selected = get_model(name, environ)
    /\ fpc = "returned"

\* generate_text(system_prompt, user_prompt, images) is called; without an
\* API key it raises before any request
GeminiGenerateText ==
    /\ gpc = "idle"
    /\ \E imgs \in ImageLists : images' = imgs
    /\ IF selected.api_key
       THEN gpc' = "post" /\ UNCHANGED outcome
       ELSE gpc' = "done" /\ outcome' = RuntimeError(0, <<>>)
    /\ UNCHANGED <<otherVars, memVars, opVars, loopVars, requests, responses>>

\* session.post(url, json=payload): the only request
GeminiPost ==
    /\ gpc = "post"
    /\ requests' = Append(requests, GeminiContents(images))
    /\ \/ \E r \in GeminiResponses :
             /\ responses' = Append(responses, r)
             /\ gpc' = "inspect"
             /\ UNCHANGED outcome
       \/ /\ outcome' = OtherError
          /\ gpc' = "done"
          /\ UNCHANGED responses
    /\ UNCHANGED <<otherVars, memVars, opVars, loopVars, images>>

\* the test on resp.status and the extraction of the text
GeminiInspect ==
    /\ gpc = "inspect"
    /\ LET resp == responses[1] IN
       outcome' = IF resp.status # 200 THEN RuntimeError(resp.status, resp.raw)
                  ELSE IF ~Parses(resp.raw) THEN OtherError
                  ELSE IF ~Candidates(resp.raw) THEN RuntimeError(200, resp.raw)
                  ELSE Returns(Content(resp.raw))
    /\ gpc' = "done"
    /\ UNCHANGED <<otherVars, memVars, opVars, loopVars, images, requests, responses>>

GeminiNext == GeminiGenerateText \/ GeminiPost \/ GeminiInspect

SpecGemini == GeminiInit /\ [][GeminiNext]_vars

(***************************************************************************)
(* Claims about Qwen3VL.generate_text, checked under SpecGateway.          *)
(***************************************************************************)
GwEnded  == gpc = "done"
GwRaised == outcome.kind \in {"RuntimeError", "OtherError"}

\* C5: a generate_text call never sends more than two requests; with
\* non-empty images and a first response of status 400, the call ends having
\* sent exactly two requests, the second without any image part, and when the
\* second response is not 200 the call ends raising an error.
C5_OneTextOnlyRetry ==
    /\ Len(requests) <= 2
    /\ (images # <<>> /\ Len(responses) >= 1 /\ responses[1].status = 400) =>
          /\ gpc \in {"inspect", "retry", "inspect_retry", "done"}
          /\ Len(requests) = 2 =>
                (~requests[2].parts /\ requests[2].images = <<>>)
          /\ GwEnded =>
                /\ Len(requests) = 2
                /\ (Len(responses) = 2 /\ responses[2].status # 200) => GwRaised

\* two images, a 400, a text-only retry answered 500: the call raised
C5_Witness ==
    /\ GwEnded
    /\ Len(requests) = 2
    /\ Len(responses) = 2
    /\ images = <<<<"img">>, <<"img">>>>
    /\ Len(requests[1].images) = 2
    /\ responses[1].status = 400
    /\ requests[2].images = <<>>
    /\ responses[2].status = 500
    /\ outcome.kind = "RuntimeError"

\* C6: when the first response is not 200 and it is not the case that the
\* status is 400 with non-empty images, no second request is sent and the
\* call raises an error that carries the status and the raw body.
C6_FailureSurfaces ==
    (/\ Len(responses) >= 1
     /\ responses[1].status # 200
     /\ ~(responses[1].status = 400 /\ images # <<>>))
    =>  /\ Len(requests) = 1
        /\ gpc \in {"inspect", "done"}
        /\ GwEnded => outcome = RuntimeError(responses[1].status, responses[1].raw)

\* a 400 on a text-only call raised after one request
C6_Witness ==
    /\ GwEnded
    /\ images = <<>>
    /\ Len(requests) = 1
    /\ Len(responses) = 1
    /\ responses[1].status = 400
    /\ outcome.kind = "RuntimeError"
    /\ outcome.status = 400
    /\ outcome.text = responses[1].raw

(***************************************************************************)
(* Claims about VIGAMemory, checked under SpecMemory.                      *)
(***************************************************************************)

\* C7: after n add_iteration calls on a memory with window_size k >= 1,
\* get_context_window returns exactly the last min(k, n) records passed to
\* add_iteration, in insertion order (the empty sequence when n = 0), and
\* history still holds exactly the n inserted records.
C7_WindowIsTail ==
    (lastOp = "get_context_window" /\ window_size >= 1) =>
        LET n == Len(added)
            m == IF window_size < n THEN window_size ELSE n
        IN  /\ Len(ret) = m
            /\ \A i \in 1..m : ret[i] = added[n - m + i]
            /\ history = added

\* three records in a window of two: the window is records 2 and 3
C7_Witness ==
    /\ lastOp = "get_context_window"
    /\ window_size = 2
    /\ Len(added) = 3
    /\ added[1] # added[2] /\ added[2] # added[3]
    /\ ret = <<added[2], added[3]>>

\* C8: get_latest_code returns the code of the most recently appended record
\* whose code is non-empty (neither None nor ""), however far back it lies,
\* and the empty string when there is no such record.
C8_LatestCode ==
    lastOp = "get_latest_code" =>
        LET withCode == {i \in 1..Len(added) : added[i].code \notin {None, <<>>}}
        IN  IF withCode = {}
            THEN ret = <<>>
            ELSE \E i \in withCode :
                    /\ \A j \in withCode : j <= i
                    /\ ret = added[i].code

\* the only record with code lies outside a window of one record
C8_Witness ==
    /\ lastOp = "get_latest_code"
    /\ window_size = 1
    /\ Len(added) = 3
    /\ added[1].code = <<"a">>
    /\ added[2].code = None
    /\ added[3].code = <<>>
    /\ ret = <<"a">>

\* C9: in every reachable memory state the record at position i (0-based)
\* has iteration_id i, because add_iteration rejects any other record.
C9_GapFree ==
    \A i \in 1..Len(history) : history[i].iteration_id = i - 1

(***************************************************************************)
(* Claims about VIGAAgent.run_loop, checked under Spec.                    *)
(***************************************************************************)
\* run_loop has ended: it returned the memory, or an exception left it
Returned   == pc = "done"
Propagated == pc = "raised"

\* the log entries of one kind
Entries(op, res, who) ==
    {i \in DOMAIN log : log[i].op = op /\ log[i].result = res /\ log[i].by = who}

\* the iterations run_loop entered (every iteration starts with the plan call)
Entered == {log[i].t : i \in DOMAIN log}

\* the feedback of record j (1-based) was returned by the Verifier
FromVerifier(j) == \E i \in Entries("model", "ok", "verifier") : log[i].t = j - 1

\* C1: with a generator that always returns code and a host that reports
\* status error on every call, run_loop(task, N) returns a memory of exactly
\* N records, each with a non-empty execution_result, and no call of the
\* Verifier was made.
C1_AllErrorsRunToMax ==
    (/\ Returned
     /\ Entries("execute_code", "ok", "loop") = {}
     /\ \A j \in DOMAIN history : history[j].code # <<>>)
    =>  /\ Len(history) = max_iterations
        /\ \A j \in DOMAIN history : history[j].execution_result \notin {None, <<>>}
        /\ \A i \in DOMAIN log : log[i].by # "verifier"

\* C2: when the Verifier's feedback of iteration j (0-based) contains the
\* sentinel, that record is the last one: memory holds exactly j + 1 records,
\* no external call follows its append, and run_loop is at the convergence
\* test that breaks, or has returned.
C2_StopsAtSentinel ==
    \A j \in DOMAIN history :
        (FromVerifier(j) /\ Contains(Sentinel, history[j].visual_feedback)) =>
            /\ Len(history) = j
            /\ Len(log) = appendedAt
            /\ pc \in {"check", "done"}
            /\ pc = "check" => ctx = history[j]

\* sentinel at iteration 1 of an allowed 3: run_loop returned 2 records
C2_Witness ==
    /\ Returned
    /\ max_iterations = 3
    /\ Len(history) = 2
    /\ FromVerifier(2)
    /\ Contains(Sentinel, history[2].visual_feedback)
    /\ ~Contains(Sentinel, history[1].visual_feedback)

\* C3: a failed gateway call in the Generator or the Verifier of iteration n
\* is not propagated to the caller of run_loop: the record of iteration n is
\* appended and run_loop returns the memory.
C3_GatewayFailureAbsorbed ==
    /\ ~Propagated
    /\ Returned =>
          \A i \in Entries("model", "raise", "generator")
                   \cup Entries("model", "raise", "verifier") :
              Len(history) > log[i].t

\* C4: when the host reports status error at iteration n and n + 1 <
\* max_iterations, the failure is the feedback of record n and iteration
\* n + 1 begins, whatever the error text.
C4_HostErrorContinues ==
    (Returned \/ Propagated) =>
        \A i \in Entries("execute_code", "error", "loop") :
            log[i].t + 1 < max_iterations =>
                /\ log[i].t + 1 <= Len(history)
                /\ MatchAt(<<"Execution", " ", "Error:">>,
                           history[log[i].t + 1].visual_feedback, 0)
                /\ log[i].t + 1 \in Entered

\* C10: every iteration run_loop entered has appended exactly one record by
\* the time run_loop ends, no record is appended twice, and every record in
\* memory has plan, code, execution_result and feedback set.
C10_OneRecordPerIteration ==
    /\ (Returned \/ Propagated) => Len(history) = Cardinality(Entered)
    /\ \A j, k \in DOMAIN history :
          history[j].iteration_id = history[k].iteration_id => j = k
    /\ \A j \in DOMAIN history :
          /\ history[j].plan # None
          /\ history[j].code # None
          /\ history[j].execution_result # None
          /\ history[j].visual_feedback # None

\* the gateway calls the Generator made
GeneratorCalls ==
    Entries("model", "ok", "generator") \cup Entries("model", "raise", "generator")

\* C11: when the Generator of iteration n + 1 makes a gateway call, record n
\* is already in memory: it is the newest record of the window the Generator
\* read, and its code, when non-empty, is the latest code the synthesis read.
C11_GeneratorSeesPrevious ==
    \A i \in GeneratorCalls :
        log[i].t >= 1 =>
            LET n1 == log[i].t
                w  == log[i].window
            IN  /\ Len(history) >= n1
                /\ history[n1].iteration_id = n1 - 1
                /\ w # <<>>
                /\ w[Len(w)] = history[n1]
                /\ (log[i].stage = "synthesize"
                    /\ history[n1].code \notin {None, <<>>})
                   => log[i].latest = history[n1].code

\* the synthesis call of iteration 2 read records 0 and 1 and record 1's code
C11_Witness ==
    /\ Len(history) >= 2
    /\ history[2].code # <<>>
    /\ \E i \in Entries("model", "ok", "generator") :
          /\ log[i].t = 2
          /\ log[i].stage = "synthesize"
          /\ log[i].window = <<history[1], history[2]>>
          /\ log[i].latest = history[2].code

\* C12: in the memory run_loop returns on a fresh agent, the record at index
\* i (0-based) has iteration_id i.
C12_SequenceNumbers ==
    Returned => \A j \in DOMAIN history : history[j].iteration_id = j - 1

\* run_loop returned three records numbered 0, 1, 2
C12_Witness ==
    /\ Returned
    /\ Len(history) = 3
    /\ history[1].iteration_id = 0
    /\ history[2].iteration_id = 1
    /\ history[3].iteration_id = 2

\* no record's feedback contains the sentinel
NoSentinel ==
    \A j \in DOMAIN history : ~Contains(Sentinel, Str(history[j].visual_feedback))

\* C13: run_loop ends; when it returns, memory holds the record of every
\* iteration it entered (after convergence as after exhaustion), and when no
\* collaborator emitted the sentinel it entered exactly max_iterations
\* iterations and memory holds max_iterations records.
C13_RunsToExhaustion ==
    /\ [](Returned =>
            /\ Len(history) = Cardinality(Entered)
            /\ NoSentinel =>
                  /\ Cardinality(Entered) = max_iterations
                  /\ Len(history) = max_iterations)
    /\ <>(Returned \/ Propagated)

\* three iterations without sentinel: run_loop returned three records
C13_Witness ==
    /\ Returned
    /\ max_iterations = 3
    /\ NoSentinel
    /\ Len(history) = 3

(***************************************************************************)
(* Claims about extract_code_from_response, checked under SpecExtractCode. *)
(***************************************************************************)
CodeReturned == ppc = "returned" /\ extracted.kind = "ok"

\* positions (0-based) of the fences and of the python tags of a response
FencesOf(r) == {i \in 0..(Len(r) - 1) : r[i + 1] = "fence"}
TagsOf(r)   == {i \in FencesOf(r) : MatchAt(FencePython, r, i)}

\* <<i, j>>: a python tag at i and the next fence after the tag at j
PythonBlocks(r) ==
    {b \in TagsOf(r) \X FencesOf(r) :
        /\ b[2] >= b[1] + 2
        /\ \A k \in FencesOf(r) : ~(b[1] + 2 <= k /\ k < b[2])}

\* <<i, j>>: a fence at i and the next fence at j
GenericBlocks(r) ==
    {b \in FencesOf(r) \X FencesOf(r) :
        /\ b[2] > b[1]
        /\ \A k \in FencesOf(r) : ~(b[1] < k /\ k < b[2])}

FirstOf(blocks) == CHOOSE b \in blocks : \A c \in blocks : b[1] <= c[1]

PythonContent(r, b)  == Strip(Slice(r, b[1] + 2, b[2]))
GenericContent(r, b) == Strip(Slice(r, b[1] + 1, b[2]))

\* C14: for a response with two or more python fenced blocks the function
\* returns exactly the trimmed content of the first block.
C14_FirstBlockOnly ==
    (/\ CodeReturned
     /\ \E b, c \in PythonBlocks(model_text) : b[2] < c[1])
    => extracted.value = PythonContent(model_text, FirstOf(PythonBlocks(model_text)))

\* C15: the function returns the content of the first python fenced block
\* when the response has one, otherwise the content of the first generic
\* fenced block when it has one, otherwise the trimmed whole response.
C15_SearchOrder ==
    CodeReturned =>
        extracted.value =
            IF PythonBlocks(model_text) # {}
            THEN PythonContent(model_text, FirstOf(PythonBlocks(model_text)))
            ELSE IF GenericBlocks(model_text) # {}
            THEN GenericContent(model_text, FirstOf(GenericBlocks(model_text)))
            ELSE Strip(model_text)

\* C16: when the response has a python opening fence followed by a closing
\* fence, the returned string contains no fence.
C16_NoFenceInCode ==
    (CodeReturned /\ PythonBlocks(model_text) # {})
    => ~Contains(Fence, extracted.value)

\* what the three statements above share once the first python block has
\* content: the first block's trimmed content comes back, without a fence
NonEmptyFirstBlock ==
    /\ PythonBlocks(model_text) # {}
    /\ LET b == FirstOf(PythonBlocks(model_text)) IN b[2] > b[1] + 2

FirstBlockWithContent ==
    (CodeReturned /\ NonEmptyFirstBlock)
    =>  /\ extracted.value = PythonContent(model_text, FirstOf(PythonBlocks(model_text)))
        /\ ~Contains(Fence, extracted.value)

\* without any fence the trimmed response comes back
NoFenceTrimmed ==
    (CodeReturned /\ FencesOf(model_text) = {}) => extracted.value = Strip(model_text)

(***************************************************************************)
(* Claims about extract_json_from_content, checked under SpecExtractJson.  *)
(***************************************************************************)
JsonTagsOf(r) == {i \in FencesOf(r) : MatchAt(FenceJson, r, i)}
BracesOf(r, b) == {i \in 0..(Len(r) - 1) : r[i + 1] = b}
Lowest(S)  == CHOOSE i \in S : \A j \in S : i <= j
Highest(S) == CHOOSE i \in S : \A j \in S : i >= j

\* the one candidate of a text, by the stated order
Candidate(r) ==
    IF JsonTagsOf(r) # {}
    THEN LET a      == Lowest(JsonTagsOf(r)) + 2
             closes == {j \in FencesOf(r) : j >= a}
         IN  Strip(Slice(r, a, IF closes = {} THEN Len(r) ELSE Lowest(closes)))
    ELSE IF BracesOf(r, "{") # {} /\ BracesOf(r, "}") # {}
    THEN Slice(r, Lowest(BracesOf(r, "{")), Highest(BracesOf(r, "}")) + 1)
    ELSE Strip(r)

\* C17: the function parses exactly one candidate (the first json fenced
\* block when the tag occurs, else the span from the first opening to the
\* last closing brace when both occur, else the trimmed text) and raises the
\* parse error when that candidate does not parse, whatever else the text
\* holds.
C17_OneCandidate ==
    ppc = "returned" =>
        IF Tokens(Candidate(model_text)) \in ValidJson
        THEN extracted = [kind |-> "ok", value |-> Tokens(Candidate(model_text))]
        ELSE extracted.kind = "raise"

\* a json block that does not parse before an object that would: the call
\* raised
C17_Witness ==
    /\ ppc = "returned"
    /\ model_text = <<"fence", "json", "}", "fence", "{", "}">>
    /\ json_loads(BraceSpan(model_text)).kind = "ok"
    /\ extracted.kind = "raise"

\* two separate objects form one candidate, which does not parse
C17_TwoObjects ==
    /\ ppc = "returned"
    /\ model_text = <<"{", "}", " ", "{", "}">>
    /\ extracted.kind = "raise"

(***************************************************************************)
(* Claims about the D5 pipeline, checked under SpecD5.                     *)
(***************************************************************************)
\* EvaluatorAgent.evaluate has just returned to run
EvaluateReturned ==
    /\ dpc = "record"
    /\ calls # <<>>
    /\ calls[Len(calls)].stage = "evaluate"
    /\ ~calls[Len(calls)].entered

\* the evaluator response asserted is_satisfactory
Asserted == eval_data.kind \in {"analysis", "fallback"} /\ eval_data.flag = "true"

\* analyze_scene returned a response whose overall_score can be compared
Scored ==
    eval_data.kind \in {"analysis", "fallback"} /\ eval_data.overallKind # "null"

\* C18 as stated: after every return of evaluate on a state that entered
\* with is_satisfied false, is_satisfied is true exactly when quality_score
\* >= satisfaction_threshold or the response asserted is_satisfactory.
C18_SatisfiedIffScoreOrFlag ==
    EvaluateReturned =>
        (state.is_satisfied <=>
            (state.quality_score >= state.satisfaction_threshold \/ Asserted))

\* C18 amended: when analyze_scene returned a response with a comparable
\* overall_score, is_satisfied is true exactly when quality_score >=
\* satisfaction_threshold or the response asserted is_satisfactory; when
\* evaluate returned without screenshot or after a failure in the stage,
\* is_satisfied is still false, whatever the fallback score.
C18_SatisfiedOnScoredResponse ==
    EvaluateReturned =>
        IF Scored
        THEN state.is_satisfied <=>
                (state.quality_score >= state.satisfaction_threshold \/ Asserted)
        ELSE ~state.is_satisfied

\* a score of 0 under threshold 0.75 with the flag asserted: satisfied
C18_Witness ==
    /\ EvaluateReturned
    /\ Scored
    /\ state.satisfaction_threshold = 75
    /\ state.quality_score = 0
    /\ Asserted
    /\ state.is_satisfied

RECURSIVE SumOf(_)
SumOf(q) == IF q = <<>> THEN 0 ELSE Head(q) + SumOf(Tail(q))

\* C19: the overall score of the Evaluate stage is the mean of the five
\* sub-scores of the feedback divided by 10, rounded to two decimals (in
\* hundredths: twice their sum).
C19_ScoreIsMeanOfSubScores ==
    (EvaluateReturned /\ eval_data.kind = "analysis" /\ Len(eval_data.scores) = 5)
    => state.quality_score = 2 * SumOf(eval_data.scores)

\* C20: once an Evaluate stage has set is_satisfied no Refine-stage model
\* call follows: run does not reach Refine on a satisfied state, and refine
\* called on a satisfied state makes no model call and leaves blender_code
\* unchanged.
C20_NoRefineOnceSatisfied ==
    /\ \A i, j \in DOMAIN calls :
          (i < j /\ calls[i].stage = "evaluate" /\ calls[i].satisfied)
          => ~(calls[j].stage = "refine" /\ calls[j].model)
    /\ \A j \in DOMAIN calls :
          (calls[j].stage = "refine" /\ calls[j].entered)
          => (~calls[j].model /\ calls[j].code = calls[j].before)
    /\ dpc = "refine" => ~state.is_satisfied

\* satisfied at iteration 0 of 2: run stopped after one iteration without a
\* Refine call, and refine on the returned state made no model call
C20_Witness ==
    /\ dpc = "refined"
    /\ state.max_iterations = 2
    /\ Len(state.iteration_history) = 1
    /\ state.is_satisfied
    /\ Len(calls) = 5
    /\ calls[4].stage = "evaluate" /\ calls[4].satisfied
    /\ calls[5].stage = "refine" /\ ~calls[5].model
    /\ calls[5].code = [by |-> "design", it |-> 0]
    /\ state.blender_code = [by |-> "design", it |-> 0]

\* run has ended: it returned the state, or an exception left it
D5Returned == dpc \in {"done", "refined", "refine_raised"}
D5Raised   == dpc = "raised"

\* the stage calls run made (a refine call on the returned state is not one)
RunCalls ==
    IF dpc \in {"refined", "refine_raised"}
    THEN 1..(Len(calls) - 1) ELSE DOMAIN calls

\* C21: run never raises to its caller: an exception inside Plan, Design,
\* Execute, Evaluate or Refine (a failed model call, a plan without the
\* expected fields) is absorbed and run returns a WorkflowState.
C21_RunNeverRaises == ~D5Raised

\* C22: when the Evaluate stage fails (the vision call raises, or the model
\* response cannot be parsed) the stage returns, quality_score is 0.5 and
\* visual_feedback has a non-empty issues list.
C22_EvaluateFailureIsNeutral ==
    (/\ calls # <<>>
     /\ calls[Len(calls)].stage = "evaluate"
     /\ eval_data.kind \in {"raise", "fallback"})
    =>  /\ ~D5Raised
        /\ state.quality_score = 50
        /\ state.visual_feedback.issues # <<>>

\* the vision call raised at iteration 0: evaluate returned the neutral score
C22_Witness ==
    /\ EvaluateReturned
    /\ eval_data.kind = "raise"
    /\ calls[Len(calls)].result = "raise"
    /\ state.quality_score = 50
    /\ state.visual_feedback.issues = <<"Could not evaluate screenshot">>

Follows(a, b) ==
    \/ a.stage = "plan" /\ b.stage = "design" /\ b.it = 0
    \/ a.stage = "design" /\ b.stage = "execute" /\ b.it = a.it
    \/ a.stage = "execute" /\ b.stage = "evaluate" /\ b.it = a.it
    \/ a.stage = "evaluate" /\ b.stage = "refine" /\ b.it = a.it
    \/ /\ a.stage \in {"execute", "evaluate", "refine"}
       /\ b.stage = "design" /\ b.it = a.it + 1

\* C24: Plan is called exactly once and first; the stages of an iteration
\* are called in the order Design, Execute, Evaluate, Refine, one after the
\* other, and a stage of iteration n + 1 is called only after the last stage
\* of iteration n.
C24_StageOrder ==
    /\ dpc # "plan" => calls # <<>>
    /\ \A j \in RunCalls : calls[j].stage = "plan" <=> j = 1
    /\ \A j \in RunCalls : (j + 1) \in RunCalls => Follows(calls[j], calls[j + 1])

\* two full iterations: Plan, then Design, Execute, Evaluate, Refine, then
\* Design, Execute, Evaluate
C24_Witness ==
    /\ dpc = "done"
    /\ Len(calls) = 8
    /\ calls[1].stage = "plan"
    /\ calls[2].stage = "design"   /\ calls[2].it = 0
    /\ calls[3].stage = "execute"  /\ calls[3].it = 0
    /\ calls[4].stage = "evaluate" /\ calls[4].it = 0
    /\ calls[5].stage = "refine"   /\ calls[5].it = 0
    /\ calls[6].stage = "design"   /\ calls[6].it = 1
    /\ calls[7].stage = "execute"  /\ calls[7].it = 1
    /\ calls[8].stage = "evaluate" /\ calls[8].it = 1

(***************************************************************************)
(* Claims about generate_step and verify_step, checked under Spec.         *)
(***************************************************************************)
\* the Generator's gateway calls of iteration n
GeneratorCallsOf(n) == {i \in GeneratorCalls : log[i].t = n}

\* C25: generate_step makes its gateway calls in the order plan, synthesis,
\* two when it returns and never more; nothing is called between them and
\* memory is the same at both; the synthesis prompt has the plan, the window
\* and the latest code; the returned record has the iteration argument as
\* iteration_id, with plan and code set.
C25_GenerateStep ==
    /\ \A n \in Entered :
          LET G == GeneratorCallsOf(n)
          IN  /\ Cardinality(G) <= 2
              /\ \E i \in G : log[i].stage = "plan" /\ \A j \in G : i <= j
              /\ \A i \in G :
                    log[i].stage = "synthesize" =>
                        /\ (i - 1) \in G
                        /\ log[i - 1].stage = "plan" /\ log[i - 1].result = "ok"
                        /\ log[i].records = log[i - 1].records
                        /\ log[i].window = log[i - 1].window
                        /\ log[i].plan \in PlanTexts
                        /\ log[i].latest # None
    /\ pc = "execute" =>
          /\ Cardinality(GeneratorCallsOf(t)) = 2
          /\ log[Len(log)].stage = "synthesize" /\ log[Len(log)].t = t
          /\ Len(history) = log[Len(log)].records
          /\ ctx.iteration_id = t
          /\ ctx.plan = log[Len(log)].plan
          /\ ctx.code # None
          /\ ctx.execution_result = None /\ ctx.visual_feedback = None

\* generate_step of iteration 1 returned: two calls, the record has id 1,
\* the plan and the extracted code
C25_Witness ==
    /\ pc = "execute"
    /\ t = 1
    /\ Len(history) = 1
    /\ Cardinality(GeneratorCallsOf(1)) = 2
    /\ ctx.iteration_id = 1
    /\ ctx.plan = <<"add", " ", "cube">>
    /\ ctx.code = <<"import", " ", "bpy">>

\* the Verifier's calls of iteration n
VerifierCallsOf(n) == {i \in DOMAIN log : log[i].by = "verifier" /\ log[i].t = n}

\* C26: verify_step calls, in this order, viewpoint initialization, scene
\* summary, observation capture and then the gateway once, with exactly the
\* captured image; the record's code is not sent to the host, and memory and
\* the record are the same at the gateway call as at the first call.
C26_VerifyStep ==
    \A i \in DOMAIN log :
        log[i].by = "verifier" =>
            /\ log[i].op \in {"viewpoint", "scene_info", "screenshot", "model"}
            /\ Cardinality({j \in VerifierCallsOf(log[i].t) : log[j].op = "model"}) <= 1
            /\ log[i].op = "model" =>
                  /\ i >= 4
                  /\ VerifierCallsOf(log[i].t) = {i - 3, i - 2, i - 1, i}
                  /\ log[i - 3].op = "viewpoint"
                  /\ log[i - 2].op = "scene_info"
                  /\ log[i - 1].op = "screenshot"
                  /\ log[i].images = <<log[i - 1].image>>
                  /\ log[i].record = log[i - 3].record
                  /\ log[i].records = log[i - 3].records

\* the Verifier of iteration 0 called the gateway with the captured image
C26_Witness ==
    /\ Len(log) >= 7
    /\ log[4].op = "viewpoint" /\ log[5].op = "scene_info"
    /\ log[6].op = "screenshot" /\ log[6].image = <<"img">>
    /\ log[7].op = "model" /\ log[7].by = "verifier"
    /\ log[7].images = << <<"img">> >>
    /\ log[7].result = "ok"
    /\ log[7].record = log[4].record
    /\ log[7].record.code = <<"import", " ", "bpy">>

(***************************************************************************)
(* Claims about initialize_viewpoint, checked under SpecViewpoint.         *)
(***************************************************************************)
\* C27: initialize_viewpoint on a scene without mesh objects returns with the
\* camera as it was; the camera is repositioned only when the scene has a
\* mesh object and an active camera; the objects are never changed.
C27_ViewpointFrameEffect ==
    vpc = "returned" =>
        /\ vp_result \in {"success", "error"}
        /\ scene.objects = scene_before.objects
        /\ Dataset(scene_before) = {} => scene.camera = scene_before.camera
        /\ scene.camera # scene_before.camera =>
              /\ Dataset(scene_before) # {}
              /\ scene_before.camera # NoCamera

\* the script ran on a scene with a light, no mesh and a camera: the camera
\* is where it was
C27_Witness ==
    /\ vpc = "returned"
    /\ vp_result = "success"
    /\ scene_before.objects = {[type |-> "LIGHT", lo |-> 0, hi |-> 1]}
    /\ scene_before.camera = [kind |-> "prior", a |-> 1, b |-> 1]
    /\ scene.camera = scene_before.camera

\* the script ran on a scene with a mesh and a camera: the camera was moved
C27_Repositioned ==
    /\ vpc = "returned"
    /\ Dataset(scene_before) # {}
    /\ scene_before.camera # NoCamera
    /\ scene.camera.kind = "framed"

(***************************************************************************)
(* Claims about get_full_prompt, checked under SpecPrompt.                 *)
(***************************************************************************)
\* positions of the iteration headers of a rendered prompt
HeadersOf(r) == {i \in 1..Len(r) : r[i] = "##"}

\* the k-th block of a rendered prompt: from its header to the next header
BlockOf(r, k) ==
    LET H     == HeadersOf(r)
        start == CHOOSE p \in H : Cardinality({q \in H : q <= p}) = k
        later == {q \in H : q > start}
        stop  == IF later = {} THEN Len(r)
                 ELSE (CHOOSE q \in later : \A x \in later : q <= x) - 1
    IN  SubSeq(r, start, stop)

\* C28: get_full_prompt renders exactly the records of the window, oldest
\* first; each block starts with the iteration header and has a Plan, a
\* fenced Code and a Feedback section exactly when that field is non-empty,
\* with no placeholder for an absent field; history is unchanged and an
\* empty memory gives a prompt without blocks.
C28_PromptRendersWindow ==
    lastOp = "get_full_prompt" =>
        LET w == get_context_window(history, window_size)
        IN  /\ history = added
            /\ Cardinality(HeadersOf(ret)) = Len(w)
            /\ \A k \in 1..Len(w) :
                  LET b == BlockOf(ret, k)
                      c == w[k]
                  IN  /\ MatchAt(<<"##", " ", "Iteration", " ",
                                   ToString(c.iteration_id), "\n">>, b, 0)
                         \/ b = <<"##", " ", "Iteration", " ",
                                  ToString(c.iteration_id), "\n", "\n">>
                      /\ Contains(<<"**Plan**:">>, b) <=> c.plan \notin {None, <<>>}
                      /\ c.plan \notin {None, <<>>} =>
                            Contains(<<"**Plan**:", " ">> \o c.plan \o <<"\n">>, b)
                      /\ Contains(Fence, b) <=> c.code \notin {None, <<>>}
                      /\ c.code \notin {None, <<>>} =>
                            Contains(FencePython \o <<"\n">> \o c.code
                                     \o <<"\n">> \o Fence, b)
                      /\ Contains(<<"Feedback**:">>, b)
                            <=> c.visual_feedback \notin {None, <<>>}
                      /\ c.visual_feedback \notin {None, <<>>} =>
                            Contains(<<"Feedback**:", " ">> \o c.visual_feedback, b)
                      /\ ~Contains(<<"None">>, b)

\* three records in a window of two: the prompt has the blocks of records 1
\* and 2, the first with a plan only, the second with code only
C28_Witness ==
    /\ lastOp = "get_full_prompt"
    /\ window_size = 2
    /\ Len(history) = 3
    /\ history[2].plan = <<"p">> /\ history[2].code = None
    /\ history[2].visual_feedback = <<>>
    /\ history[3].plan = None /\ history[3].code = <<"a">>
    /\ history[3].visual_feedback = <<"f">>
    /\ Cardinality(HeadersOf(ret)) = 2
    /\ BlockOf(ret, 1) = <<"##", " ", "Iteration", " ", "1", "\n",
                          "**Plan**:", " ", "p", "\n", "\n">>

\* the prompt of an empty memory is the title alone
C28_EmptyMemory ==
    /\ lastOp = "get_full_prompt"
    /\ history = <<>>
    /\ ret = <<"###", " ", "Interaction", " ", "History", " ", "(Recent)", "\n", "\n">>

(***************************************************************************)
(* Claims about get_model, checked under SpecFactory.                      *)
(***************************************************************************)
\* the word occurs in the name, whatever the case of the name's letters
HasWord(word, n) ==
    \E i \in 0..(Len(n) - Len(word)) :
        \A j \in 1..Len(word) : Lower(n[i + j]) = word[j]

\* the variant class the name stands for
ClassOf(n) ==
    IF HasWord(<<"q", "w", "e", "n">>, n) THEN "Qwen3VL"
    ELSE IF HasWord(<<"g", "e", "m", "i", "n", "i">>, n) THEN "Gemini3Pro"
    ELSE "MockModel"

GetModelCalled == fpc \in {"returned", "raised"}

C29_UnknownName ==
    /\ fpc = "returned"
    /\ name = <<"x", "-", "8">>
    /\ ~environ.qwen_numeric /\ ~environ.gemini_numeric
    /\ selected = MockModel

(***************************************************************************)
(* Claims about Gemini3Pro.generate_text, checked under SpecGemini.        *)
(***************************************************************************)
\* the first request of a call with non-empty images was answered with 400
GeminiRejectedImages ==
    /\ selected.class = "Gemini3Pro"
    /\ gpc = "done"
    /\ images # <<>>
    /\ Len(responses) >= 1 /\ responses[1].status = 400

\* C30: Gemini3Pro applies the retry policy of Qwen3VL: a 400 answer to a
\* call with non-empty images is followed by exactly one retry that carries
\* no image.
C30_GeminiRetriesTextOnly ==
    GeminiRejectedImages =>
        /\ Len(requests) = 2
        /\ requests[2].images = <<>> /\ ~requests[2].parts

\* what Gemini3Pro does instead: one request, then the RuntimeError
C30_GeminiRaisesOnRejection ==
    GeminiRejectedImages =>
        /\ Len(requests) = 1
        /\ outcome = RuntimeError(400, responses[1].raw)

C30_Rejected ==
    /\ GeminiRejectedImages
    /\ images = <<  <<"img">> >>
    /\ requests = << GeminiContents(images) >>

(***************************************************************************)
(* The window of a memory built with window_size 0, under SpecMemory.      *)
(***************************************************************************)
\* C39: for every window_size k >= 0 and every history, get_context_window
\* returns at most k records; a memory built with window_size 0 returns an
\* empty window.
C39_WindowAtMostK ==
    lastOp = "get_context_window" => Len(ret) <= window_size

\* what a memory built with window_size 0 returns: the whole history
C39_ZeroWindowIsHistory ==
    (lastOp = "get_context_window" /\ window_size = 0) => ret = history

C39_ZeroWindow ==
    /\ lastOp = "get_context_window" /\ window_size = 0
    /\ Len(history) = 2 /\ Len(ret) = 2

(***************************************************************************)
(* The code that Execute runs after a Refine, under SpecD5.                *)
(***************************************************************************)
\* the Refine call i produced code, and the Execute call j is the one of the
\* iteration after it
RefinedThenExecuted(i, j) ==
    /\ i < j
    /\ calls[i].stage = "refine" /\ calls[i].model /\ calls[i].result = "ok"
    /\ calls[j].stage = "execute" /\ calls[j].it = calls[i].it + 1

\* C33: the code produced by Refine at iteration n is the code that Execute
\* runs at iteration n+1.
C33_RefinedCodeIsExecuted ==
    \A i, j \in 1..Len(calls) :
        RefinedThenExecuted(i, j) => calls[j].before = calls[i].code

\* what Execute runs instead: the code Design produced in the same iteration
C33_DesignedCodeIsExecuted ==
    \A j \in 1..Len(calls) :
        calls[j].stage = "execute" =>
            calls[j].before = [by |-> "design", it |-> calls[j].it]

C33_RefineOverwritten ==
    \E i, j \in 1..Len(calls) :
        /\ RefinedThenExecuted(i, j)
        /\ calls[i].code = [by |-> "refine", it |-> 0]
        /\ calls[j].before = [by |-> "design", it |-> 1]

(***************************************************************************)
(* The number of iterations of ColossusD5Orchestrator.run, under SpecD5.   *)
(***************************************************************************)
\* the Design calls made so far
DesignCalls == {i \in 1..Len(calls) : calls[i].stage = "design"}

\* max_iterations of the WorkflowState the caller passed to run
CallerMax == calls[1].max_iterations

\* C37: the number of Design/Execute iterations run performs never exceeds
\* the max_iterations the caller placed in the WorkflowState, whatever the
\* Plan stage's model response contains.
C37_IterationsWithinCallerMax ==
    calls # <<>> => Cardinality(DesignCalls) <= CallerMax

\* the bound that does hold: the plan's estimate when it gives one, capped
\* at 5, and the caller's value otherwise
C37_IterationsWithinPlannedMax ==
    calls # <<>> => Cardinality(DesignCalls) <= Max(CallerMax, 3)

C37_ThreeIterationsForOne ==
    /\ calls # <<>>
    /\ CallerMax = 1
    /\ Cardinality(DesignCalls) = 3

(***************************************************************************)
(* A failed Evaluate and the satisfaction flag, under SpecD5.              *)
(***************************************************************************)
\* the last stage call was an Evaluate whose vision call did `kinds`
EvaluateEndedWith(kinds) ==
    /\ calls # <<>>
    /\ calls[Len(calls)].stage = "evaluate"
    /\ eval_data.kind \in kinds

\* C38: a failed Evaluate (unparsable model response, or an exception in the
\* vision call) leaves state.is_satisfied false, so the loop does not stop
\* as satisfied, for every satisfaction_threshold in [0, 1].
C38_FailedEvaluateNotSatisfied ==
    EvaluateEndedWith({"fallback", "raise"}) =>
        /\ ~state.is_satisfied
        /\ dpc # "done" \/ iteration >= state.max_iterations - 1

\* the part that holds: an exception in the vision call leaves the flag false
C38_RaisedEvaluateNotSatisfied ==
    EvaluateEndedWith({"raise"}) => ~state.is_satisfied

\* an unparsable response under a threshold of 0.5 ends the run as satisfied
C38_SatisfiedByFallback ==
    /\ EvaluateEndedWith({"fallback"})
    /\ state.satisfaction_threshold = 50
    /\ state.quality_score = 50
    /\ state.is_satisfied
    /\ dpc = "done"

(***************************************************************************)
(* The host statuses under which run_loop invokes the Verifier, under Spec.*)
(***************************************************************************)
\* str(exec_result) shows the status 'success'
ShowsSuccess(result) ==
    Contains(<<"'", "status", "'", ":", " ", "'", "success", "'">>, result)

VerifierInvoked(n) == \E i \in 1..Len(log) : log[i].by = "verifier" /\ log[i].t = n

\* C36: run_loop invokes the Verifier in an iteration if and only if the
\* host result of that iteration has status 'success'; a result whose status
\* is missing or has another value is handled as an execution failure.
C36_VerifierOnlyOnSuccess ==
    /\ \A i \in 1..Len(log) :
          log[i].by = "verifier" => ShowsSuccess(log[i].record.execution_result)
    /\ (pc = "add_iteration" /\ ShowsSuccess(ctx.execution_result))
          => VerifierInvoked(t)

\* the test run_loop makes: the Verifier is skipped exactly on status 'error'
C36_VerifierUnlessError ==
    /\ \A i \in 1..Len(log) :
          log[i].by = "verifier" =>
              ~Contains(<<"'", "status", "'", ":", " ", "'", "error", "'">>,
                        log[i].record.execution_result)
    /\ (pc = "add_iteration" /\ ShowsSuccess(ctx.execution_result))
          => VerifierInvoked(t)

\* the Verifier is called on a host result that carries no status
C36_VerifiedWithoutStatus ==
    /\ log # <<>>
    /\ log[Len(log)].by = "verifier"
    /\ log[Len(log)].op = "model"
    /\ log[Len(log)].record.execution_result
          = <<"{", "'", "errors", "'", ":", " ", "[", "]", "}">>

(***************************************************************************)
(* The provider sessions of one run_loop run, under Spec.                  *)
(***************************************************************************)
\* C31: all gateway calls of one run_loop run go through a single provider
\* session, opened once and reused: at most one session is opened in a run,
\* whatever the number of gateway calls.
C31_OneProviderSession == SessionsOpened(log) <= 1

\* a run of two iterations that made six gateway calls opened six sessions
C31_SixSessions ==
    /\ pc = "done" /\ t = 2
    /\ SessionsOpened(log) = 6

(***************************************************************************)
(* The memory returned by successive run_loop calls, under SpecRuns.       *)
(***************************************************************************)
\* C35: the memory a run_loop call returns holds only the records of that
\* call: at most max_iterations records, with iteration_ids 0, 1, 2, ...
C35_MemoryOfThisCall ==
    pc = "done" =>
        /\ Len(history) <= max_iterations
        /\ \A i \in 1..Len(history) : history[i].iteration_id = i - 1

\* the second call returns the record of the first call and its own, both
\* with iteration_id 0
C35_TwoCallsTwoRecords ==
    /\ pc = "done"
    /\ RunsStarted = 2
    /\ max_iterations = 1
    /\ Len(history) = 2
    /\ history[1].iteration_id = 0 /\ history[2].iteration_id = 0

(***************************************************************************)
(* Claims about BlenderMCPClient.execute_code, checked under SpecClient.   *)
(***************************************************************************)
\* C32: execute_code never raises in either connection mode; a failed
\* connect, send, receive or decode, or a missing tool caller, is returned
\* as a result with status "error" and a non-empty errors list.
C32_ExecuteCodeNeverRaises ==
    \A i \in 1..Len(results) :
        /\ results[i].kind \in {"response", "error"}
        /\ results[i].cause # "none" =>
              results[i].status = "error" /\ results[i].errors >= 1
        /\ results[i].call = i

\* socket mode: a failed connect, then a timeout on the new connection, then
\* a line that is no JSON, each returned as an error result
C32_Witness ==
    /\ config.connection_mode = "socket"
    /\ Len(results) = 3
    /\ results[1].cause = "send" /\ results[1].tried /\ ~results[1].established
    /\ results[2].cause = "timeout"
    /\ results[3].cause = "decode"
    /\ \A i \in 1..3 : results[i].status = "error"

\* tools mode without a tool caller
C32_NoToolCaller ==
    /\ config.connection_mode = "mcp_tools"
    /\ results # <<>>
    /\ results[1].cause = "no_caller" /\ results[1].status = "error"

\* C34: in socket mode the result of every execute_code call is the host's
\* response to the request of that same call, also when an earlier call
\* timed out and its response arrives late.
C34_ResponseOfSameCall ==
    \A i \in 1..Len(results) :
        (config.connection_mode = "socket" /\ results[i].kind = "response")
            => results[i].to = results[i].call

\* call 1 timed out; call 2 returned the host's response to request 1
C34_LateResponse ==
    /\ Len(results) >= 2
    /\ results[1].cause = "timeout"
    /\ results[2].kind = "response"
    /\ results[2].call = 2 /\ results[2].to = 1

\* the result of a send or receive error on an established connection
TransportError(r) ==
    r.established /\ r.cause \in {"send", "timeout", "closed"}

\* C40: after a call failed with a send or receive error on an established
\* connection, the next call goes through _connect_socket before it sends,
\* and the client is not left marked connected on a failed socket.
C40_ReconnectAfterTransportError ==
    /\ \A i \in 1..Len(results) :
          (i > 1 /\ TransportError(results[i - 1])) => results[i].tried
    /\ (mpc = "idle" /\ socket = "failed") => ~connected

\* call 1 failed in sendall on the established connection; call 2 sent on
\* the same socket without connecting
C40_StillMarkedConnected ==
    /\ Len(results) = 2
    /\ results[1].cause = "send" /\ results[1].established
    /\ results[2].cause = "send" /\ ~results[2].tried
    /\ connected /\ socket = "failed"

====
